---- MODULE Spec2Model ----
(***************************************************************************)
(* A model of the devola virtual machine (devola/src/vm.rs): the memory,   *)
(* the five registers, the flag byte, the program counter and the          *)
(* step/run loop, with every instruction of execute_instruction.           *)
(*                                                                         *)
(* The 64 KiB memory array is zero-initialised; it is represented by the   *)
(* function of its non-zero cells (a cell outside the domain holds 0).     *)
(* Rust integer overflow outside the overflowing_* calls panics when the   *)
(* crate is built with overflow checks (debug, cargo test) and wraps when  *)
(* it is not (release); the build is the variable overflow_checks.         *)
(* A panic ends the process: the state stays as it was before the call and *)
(* no further call is made.  The debug trace of step() (debug, call_stack, *)
(* symbol_table) only prints and is left out; the extension table externs  *)
(* is None in every machine Devola::new builds and is never read.          *)
(***************************************************************************)
EXTENDS Integers, Naturals, Sequences, FiniteSets, TLC

\* ------------------------------------------------------------------ bounds
\* longest program drawn by Init
MaxLen == 3
\* number of step() calls followed along one behaviour
MaxSteps == 7
\* largest input n of the square loop
MaxN == 17

\* longest run of digits of the operands that are enumerated exhaustively
MaxDigits == 3

\* number of lines of a source text
MaxLines == 2

\* number of library calls followed along one behaviour
MaxCalls == 2

\* deepest nesting of the calls of the nested programs
MaxDepth == 3

\* ------------------------------------------------- constants of vm.rs
MMIO == 4080
STACK_POINTER_MSB == MMIO + 0
STACK_POINTER_LSB == MMIO + 1
INITIAL_STACK_POINTER == 3840

\* ------------------------------------------------- byte and word helpers
RECURSIVE BitAnd(_, _)
BitAnd(a, b) ==
    IF a = 0 \/ b = 0 THEN 0
    ELSE (a % 2) * (b % 2) + 2 * BitAnd(a \div 2, b \div 2)

RECURSIVE BitOr(_, _)
BitOr(a, b) ==
    IF a = 0 THEN b
    ELSE IF b = 0 THEN a
    ELSE (IF (a % 2) + (b % 2) > 0 THEN 1 ELSE 0) + 2 * BitOr(a \div 2, b \div 2)

\* !x on a u8
BitNot8(a) == 255 - a

Pow2(n) == 2 ^ n

\* x >> n
ShiftRight(x, n) == x \div Pow2(n)

\* break_u16 as it would be if the low byte came first
break_u16_low_first(word) == << BitAnd(word, 255) % 256, ShiftRight(word, 8) % 256 >>

build_u16(msb, lsb) == BitOr((msb * 256) % 65536, lsb)

break_u16(word) == << ShiftRight(word, 8) % 256, BitAnd(word, 255) % 256 >>

\* ------------------------------------------------- instructions.rs
Registers == {"Accumulator", "IndexX", "IndexY", "UtilityB", "UtilityC"}
Flags == {"Carry", "Zero", "Parity", "Sign"}

NoMode == [kind |-> "None", reg |-> "None", n |-> 0]
Register(r) == [kind |-> "Register", reg |-> r, n |-> 0]
Immediate(v) == [kind |-> "Immediate", reg |-> "None", n |-> v]
Indirect(p) == [kind |-> "Indirect", reg |-> "None", n |-> p]
Index == [kind |-> "Index", reg |-> "None", n |-> 0]
IndexOffset(k) == [kind |-> "IndexOffset", reg |-> "None", n |-> k]

NoJump == [kind |-> "None", flag |-> "None", set |-> FALSE]
Unconditional == [kind |-> "Unconditional", flag |-> "None", set |-> FALSE]
Flag(f, s) == [kind |-> "Flag", flag |-> f, set |-> s]

Instr(op, reg, mode, jt, dest, name, value) ==
    [op |-> op, reg |-> reg, mode |-> mode, jt |-> jt, dest |-> dest,
     name |-> name, value |-> value]

Load(r, m) == Instr("Load", r, m, NoJump, 0, "", 0)
Store(r, m) == Instr("Store", r, m, NoJump, 0, "", 0)
Increment == Instr("Increment", "None", NoMode, NoJump, 0, "", 0)
Decrement == Instr("Decrement", "None", NoMode, NoJump, 0, "", 0)
Add(m) == Instr("Add", "None", m, NoJump, 0, "", 0)
AddXY(m) == Instr("AddXY", "None", m, NoJump, 0, "", 0)
Subtract(m) == Instr("Subtract", "None", m, NoJump, 0, "", 0)
SubtractXY(m) == Instr("SubtractXY", "None", m, NoJump, 0, "", 0)
Compare(m) == Instr("Compare", "None", m, NoJump, 0, "", 0)
Jump(jt, t) == Instr("Jump", "None", NoMode, jt, t, "", 0)
CallLocal(t) == Instr("CallLocal", "None", NoMode, NoJump, t, "", 0)
CallLibrary(name) == Instr("CallLibrary", "None", NoMode, NoJump, 0, name, 0)
Return == Instr("Return", "None", NoMode, NoJump, 0, "", 0)
Push(r) == Instr("Push", r, NoMode, NoJump, 0, "", 0)
Pop(r) == Instr("Pop", r, NoMode, NoJump, 0, "", 0)
Nop == Instr("Nop", "None", NoMode, NoJump, 0, "", 0)
Label(name) == Instr("_Label", "None", NoMode, NoJump, 0, name, 0)
LabeledJump(jt, name) == Instr("_LabeledJump", "None", NoMode, jt, 0, name, 0)
LabeledCall(name) == Instr("_LabeledCall", "None", NoMode, NoJump, 0, name, 0)
AssertInstr(m, v) == Instr("_Assert", "None", m, NoJump, 0, "", v)

\* ------------------------------------------------- DevolaMemory
\* memory: [u8; MEMORY_SIZE] as the function of its non-zero cells
EmptyMemory == [a \in {} |-> 0]

MemRead(memory, a) == IF a \in DOMAIN memory THEN memory[a] ELSE 0

MemWrite(memory, a, v) ==
    IF v = 0
    THEN [x \in (DOMAIN memory) \ {a} |-> memory[x]]
    ELSE [x \in (DOMAIN memory) \cup {a} |-> IF x = a THEN v ELSE memory[x]]

FlagShift(f) ==
    CASE f = "Carry" -> 0
      [] f = "Zero" -> 1
      [] f = "Parity" -> 2
      [] f = "Sign" -> 3

\* DevolaMemory::flag
flag(flags, f) == BitAnd(ShiftRight(flags, FlagShift(f)), 1) = 1

\* flag_mask as it would be with the Sign mask one bit too high
flag_mask_sign_bit4(f) ==
    CASE f = "Carry" -> 254
      [] f = "Zero" -> 253
      [] f = "Parity" -> 251
      [] f = "Sign" -> 239

flag_mask(f) ==
    CASE f = "Carry" -> 254
      [] f = "Zero" -> 253
      [] f = "Parity" -> 251
      [] f = "Sign" -> 247

clear_flag(flags, f) == BitAnd(flags, flag_mask(f))

set_flag(flags, f) == BitOr(flags, BitNot8(flag_mask(f)))

\* clear_flag over a list of flags, in order
RECURSIVE clear_flags(_, _)
clear_flags(flags, fs) ==
    IF fs = << >> THEN flags
    ELSE clear_flags(clear_flag(flags, Head(fs)), Tail(fs))

\* "if cond { set_flag(f) }"
set_flag_if(flags, cond, f) == IF cond THEN set_flag(flags, f) ELSE flags

\* DevolaMemory::get_index
get_index(registers) ==
    BitOr((registers["IndexX"] * 256) % 65536, registers["IndexY"])

\* ------------------------------------------------- Devola
\* The machine as a value: d.pc, d.memory, d.flags, d.registers, and d.panic,
\* which is TRUE once a Rust panic has unwound the call.
get_stack_pointer(d) ==
    build_u16(MemRead(d.memory, STACK_POINTER_MSB), MemRead(d.memory, STACK_POINTER_LSB))

\* write_stack_pointer as it would be if only the MSB cell were written back
write_stack_pointer_msb_only(memory, new_stack_pointer) ==
    MemWrite(memory, STACK_POINTER_MSB, break_u16(new_stack_pointer)[1])

\* the two MMIO writes of push and pop
write_stack_pointer(memory, new_stack_pointer) ==
    LET b == break_u16(new_stack_pointer)
        m1 == MemWrite(memory, STACK_POINTER_MSB, b[1])
    IN  MemWrite(m1, STACK_POINTER_LSB, b[2])

\* push as it would be if the stack grew upwards
push_grows_up(d, value, checks) ==
    LET sp == get_stack_pointer(d)
        new_stack_pointer == (sp + 1) % 65536
        m1 == MemWrite(d.memory, new_stack_pointer, value)
    IN  IF d.panic THEN d
        ELSE IF checks /\ sp + 1 > 65535 THEN [d EXCEPT !.panic = TRUE]
        ELSE [d EXCEPT !.memory = write_stack_pointer(m1, new_stack_pointer)]

\* Devola::push; checks = the build panics on integer overflow
push(d, value, checks) ==
    LET sp == get_stack_pointer(d)
        new_stack_pointer == (sp - 1) % 65536
        m1 == MemWrite(d.memory, new_stack_pointer, value)
    IN  IF d.panic THEN d
        ELSE IF checks /\ sp - 1 < 0 THEN [d EXCEPT !.panic = TRUE]
        ELSE [d EXCEPT !.memory = write_stack_pointer(m1, new_stack_pointer)]

\* pop as it would be if it read the cell at the new stack pointer
pop_reads_new_top(d, checks) ==
    LET sp == get_stack_pointer(d)
        new_stack_pointer == (sp + 1) % 65536
        m1 == write_stack_pointer(d.memory, new_stack_pointer)
    IN  IF d.panic THEN [d |-> d, value |-> 0]
        ELSE IF checks /\ sp + 1 > 65535
             THEN [d |-> [d EXCEPT !.panic = TRUE], value |-> 0]
        ELSE [d |-> [d EXCEPT !.memory = m1],
              value |-> MemRead(m1, new_stack_pointer)]

\* Devola::pop; the result is the machine and the byte returned
pop(d, checks) ==
    LET sp == get_stack_pointer(d)
        new_stack_pointer == (sp + 1) % 65536
        m1 == write_stack_pointer(d.memory, new_stack_pointer)
    IN  IF d.panic THEN [d |-> d, value |-> 0]
        ELSE IF checks /\ (sp + 1 > 65535 \/ new_stack_pointer - 1 < 0)
             THEN [d |-> [d EXCEPT !.panic = TRUE], value |-> 0]
        ELSE [d |-> [d EXCEPT !.memory = m1],
              value |-> MemRead(m1, (new_stack_pointer - 1) % 65536)]

\* Devola::resolve_rvalue; the byte and whether the address addition panicked
resolve_rvalue(d, addressing_mode, checks) ==
    LET k == addressing_mode.kind
        sum == get_index(d.registers) + addressing_mode.n
    IN  CASE k = "Register" ->
                [value |-> d.registers[addressing_mode.reg], panic |-> FALSE]
          [] k = "Immediate" -> [value |-> addressing_mode.n, panic |-> FALSE]
          [] k = "Indirect" ->
                [value |-> MemRead(d.memory, addressing_mode.n), panic |-> FALSE]
          [] k = "Index" ->
                [value |-> MemRead(d.memory, get_index(d.registers)), panic |-> FALSE]
          [] k = "IndexOffset" ->
                IF checks /\ sum > 65535
                THEN [value |-> 0, panic |-> TRUE]
                ELSE [value |-> MemRead(d.memory, sum % 65536), panic |-> FALSE]

Outcome(err, d) == [err |-> err, d |-> d]

\* inc_dec_flags as it would be if Zero followed the new accumulator
inc_dec_flags_zero_of_result(flags, wrapped, result) ==
    LET f0 == clear_flags(flags, << "Zero", "Sign", "Parity" >>)
        f1 == set_flag_if(f0, result = 0, "Zero")
        f2 == set_flag_if(f1, result % 2 = 1, "Parity")
    IN  set_flag_if(f2, BitAnd(result, 128) = 128, "Sign")

\* the flag block shared by Increment and Decrement
inc_dec_flags(flags, wrapped, result) ==
    LET f0 == clear_flags(flags, << "Zero", "Sign", "Parity" >>)
        f1 == set_flag_if(f0, wrapped, "Zero")
        f2 == set_flag_if(f1, result % 2 = 1, "Parity")
    IN  set_flag_if(f2, BitAnd(result, 128) = 128, "Sign")

\* add_sub_flags as it would be if Carry were only ever set, never cleared
add_sub_flags_keeps_carry(flags, result, carry) ==
    LET f0 == clear_flags(flags, << "Zero", "Sign", "Parity" >>)
        f1 == set_flag_if(f0, result = 0, "Zero")
        f2 == set_flag_if(f1, BitAnd(result, 128) = 128, "Sign")
        f3 == set_flag_if(f2, result % 2 = 1, "Parity")
    IN  set_flag_if(f3, carry, "Carry")

\* the flag block shared by Add and Subtract
add_sub_flags(flags, result, carry) ==
    LET f0 == clear_flags(flags, << "Zero", "Sign", "Parity", "Carry" >>)
        f1 == set_flag_if(f0, result = 0, "Zero")
        f2 == set_flag_if(f1, BitAnd(result, 128) = 128, "Sign")
        f3 == set_flag_if(f2, result % 2 = 1, "Parity")
    IN  set_flag_if(f3, carry, "Carry")

\* xy_flags as it would be if the 16-bit operations cleared Sign as well
xy_flags_clears_sign(flags, result, carry) ==
    LET f0 == clear_flags(flags, << "Zero", "Sign", "Parity", "Carry" >>)
        f1 == set_flag_if(f0, result = 0, "Zero")
        f2 == set_flag_if(f1, result % 2 = 1, "Parity")
    IN  set_flag_if(f2, carry, "Carry")

\* the flag block shared by AddXY and SubtractXY
xy_flags(flags, result, carry) ==
    LET f0 == clear_flags(flags, << "Zero", "Parity", "Carry" >>)
        f1 == set_flag_if(f0, result = 0, "Zero")
        f2 == set_flag_if(f1, result % 2 = 1, "Parity")
    IN  set_flag_if(f2, carry, "Carry")

\* Compare as it would be with the flags of the subtraction A - x
compare_flags_of_difference(flags, accumulator, comparator) ==
    add_sub_flags(flags, (accumulator - comparator) % 256, accumulator < comparator)

compare_flags(flags, accumulator, comparator) ==
    LET f0 == clear_flags(flags, << "Zero", "Sign", "Parity", "Carry" >>)
        f1 == set_flag_if(f0, comparator = accumulator, "Zero")
        f2 == set_flag_if(f1, BitAnd(comparator, 128) = BitAnd(accumulator, 128), "Sign")
        f3 == set_flag_if(f2, (comparator % 2) = (accumulator % 2), "Parity")
    IN  set_flag_if(f3, accumulator < comparator, "Carry")

\* store_dest as it would be if an Immediate were taken as the address
store_dest_immediate_address(d, addressing_mode, checks) ==
    LET k == addressing_mode.kind
        sum == get_index(d.registers) + addressing_mode.n
    IN  CASE k = "Register" -> [ok |-> FALSE, panic |-> FALSE, addr |-> 0]
          [] k \in {"Indirect", "Immediate"} ->
                [ok |-> TRUE, panic |-> FALSE, addr |-> addressing_mode.n]
          [] k = "Index" -> [ok |-> TRUE, panic |-> FALSE, addr |-> get_index(d.registers)]
          [] k = "IndexOffset" ->
                [ok |-> TRUE, panic |-> checks /\ sum > 65535, addr |-> sum % 65536]

\* store_dest as it would be if Index took the low byte Y alone as the address
store_dest_index_low_byte(d, addressing_mode, checks) ==
    LET k == addressing_mode.kind
        sum == get_index(d.registers) + addressing_mode.n
    IN  CASE k \in {"Register", "Immediate"} -> [ok |-> FALSE, panic |-> FALSE, addr |-> 0]
          [] k = "Indirect" -> [ok |-> TRUE, panic |-> FALSE, addr |-> addressing_mode.n]
          [] k = "Index" -> [ok |-> TRUE, panic |-> FALSE, addr |-> d.registers["IndexY"]]
          [] k = "IndexOffset" ->
                [ok |-> TRUE, panic |-> checks /\ sum > 65535, addr |-> sum % 65536]

\* the l-value of Store; ok = FALSE for Register and Immediate
store_dest(d, addressing_mode, checks) ==
    LET k == addressing_mode.kind
        sum == get_index(d.registers) + addressing_mode.n
    IN  CASE k \in {"Register", "Immediate"} -> [ok |-> FALSE, panic |-> FALSE, addr |-> 0]
          [] k = "Indirect" -> [ok |-> TRUE, panic |-> FALSE, addr |-> addressing_mode.n]
          [] k = "Index" -> [ok |-> TRUE, panic |-> FALSE, addr |-> get_index(d.registers)]
          [] k = "IndexOffset" ->
                [ok |-> TRUE, panic |-> checks /\ sum > 65535, addr |-> sum % 65536]

\* jump_taken as it would be if the sense of a conditional jump were ignored
jump_taken_ignores_sense(flags, jump_type) ==
    CASE jump_type.kind = "Unconditional" -> TRUE
      [] jump_type.kind = "Flag" -> flag(flags, jump_type.flag)

\* jump_taken as it would be if only conditional jumps were ever taken
jump_taken_only_conditional(flags, jump_type) ==
    CASE jump_type.kind = "Unconditional" -> FALSE
      [] jump_type.kind = "Flag" ->
            (flag(flags, jump_type.flag) /\ jump_type.set)
            \/ (~flag(flags, jump_type.flag) /\ ~jump_type.set)

jump_taken(flags, jump_type) ==
    CASE jump_type.kind = "Unconditional" -> TRUE
      [] jump_type.kind = "Flag" ->
            (flag(flags, jump_type.flag) /\ jump_type.set)
            \/ (~flag(flags, jump_type.flag) /\ ~jump_type.set)

Panicked(d) == [d EXCEPT !.panic = TRUE]

\* call_local as it would be if the low byte of pc were pushed first
call_local_lsb_first(d, dest, checks) ==
    LET b == break_u16(d.pc % 65536)
        d1 == push(d, b[2], checks)
        d2 == push(d1, b[1], checks)
    IN  IF d2.panic THEN Panicked(d) ELSE [d2 EXCEPT !.pc = dest]

\* the arm of execute_instruction for Call(CallType::Local(dest))
call_local(d, dest, checks) ==
    LET b == break_u16(d.pc % 65536)
        d1 == push(d, b[1], checks)
        d2 == push(d1, b[2], checks)
    IN  IF d2.panic THEN Panicked(d) ELSE [d2 EXCEPT !.pc = dest]

\* Devola::execute_instruction: the error returned ("Ok" for Ok(())) and the
\* machine afterwards
execute_instruction(d, instruction, checks) ==
    LET op == instruction.op
        rv == resolve_rvalue(d, instruction.mode, checks)
        A == d.registers["Accumulator"]
        XY == get_index(d.registers)
    IN  CASE op = "Load" ->
                IF rv.panic THEN Outcome("Ok", Panicked(d))
                ELSE Outcome("Ok", [d EXCEPT !.registers[instruction.reg] = rv.value])
          [] op = "Store" ->
                LET dest == store_dest(d, instruction.mode, checks)
                IN  IF ~dest.ok THEN Outcome("InvalidArgument", d)
                    ELSE IF dest.panic THEN Outcome("Ok", Panicked(d))
                    ELSE Outcome("Ok", [d EXCEPT !.memory =
                            MemWrite(d.memory, dest.addr, d.registers[instruction.reg])])
          [] op = "Increment" ->
                LET result == IF A = 255 THEN 0 ELSE A + 1
                IN  Outcome("Ok", [d EXCEPT !.registers["Accumulator"] = result,
                                            !.flags = inc_dec_flags(d.flags, A = 255, result)])
          [] op = "Decrement" ->
                LET result == IF A = 0 THEN 255 ELSE A - 1
                IN  Outcome("Ok", [d EXCEPT !.registers["Accumulator"] = result,
                                            !.flags = inc_dec_flags(d.flags, A = 0, result)])
          [] op = "Add" ->
                LET result == (A + rv.value) % 256
                    carry == A + rv.value > 255
                IN  IF rv.panic THEN Outcome("Ok", Panicked(d))
                    ELSE Outcome("Ok", [d EXCEPT !.registers["Accumulator"] = result,
                                        !.flags = add_sub_flags(d.flags, result, carry)])
          [] op = "AddXY" ->
                LET result == (XY + rv.value) % 65536
                    carry == XY + rv.value > 65535
                    b == break_u16(result)
                IN  IF rv.panic THEN Outcome("Ok", Panicked(d))
                    ELSE Outcome("Ok", [d EXCEPT !.registers["IndexX"] = b[1],
                                        !.registers["IndexY"] = b[2],
                                        !.flags = xy_flags(d.flags, result, carry)])
          [] op = "SubtractXY" ->
                LET result == (XY - rv.value) % 65536
                    carry == XY - rv.value < 0
                    b == break_u16(result)
                IN  IF rv.panic THEN Outcome("Ok", Panicked(d))
                    ELSE Outcome("Ok", [d EXCEPT !.registers["IndexX"] = b[1],
                                        !.registers["IndexY"] = b[2],
                                        !.flags = xy_flags(d.flags, result, carry)])
          [] op = "Subtract" ->
                LET result == (A - rv.value) % 256
                    carry == A - rv.value < 0
                IN  IF rv.panic THEN Outcome("Ok", Panicked(d))
                    ELSE Outcome("Ok", [d EXCEPT !.registers["Accumulator"] = result,
                                        !.flags = add_sub_flags(d.flags, result, carry)])
          [] op = "Compare" ->
                IF rv.panic THEN Outcome("Ok", Panicked(d))
                ELSE Outcome("Ok", [d EXCEPT !.flags = compare_flags(d.flags, A, rv.value)])
          [] op = "Jump" ->
                IF jump_taken(d.flags, instruction.jt)
                THEN Outcome("Ok", [d EXCEPT !.pc = instruction.dest])
                ELSE Outcome("Ok", d)
          [] op = "CallLocal" -> Outcome("Ok", call_local(d, instruction.dest, checks))
          [] op = "CallLibrary" -> Outcome("Unimplemented", d)
          [] op = "Return" ->
                LET p1 == pop(d, checks)
                    p2 == pop(p1.d, checks)
                IN  IF p2.d.panic THEN Outcome("Ok", Panicked(d))
                    ELSE Outcome("Ok", [p2.d EXCEPT !.pc = build_u16(p2.value, p1.value)])
          [] op = "Push" ->
                LET d1 == push(d, d.registers[instruction.reg], checks)
                IN  IF d1.panic THEN Outcome("Ok", Panicked(d)) ELSE Outcome("Ok", d1)
          [] op = "Pop" ->
                LET p1 == pop(d, checks)
                IN  IF p1.d.panic THEN Outcome("Ok", Panicked(d))
                    ELSE Outcome("Ok", [p1.d EXCEPT !.registers[instruction.reg] = p1.value])
          [] op \in {"Nop", "_Label", "_LabeledJump", "_LabeledCall"} -> Outcome("Ok", d)
          [] op = "_Assert" ->
                IF rv.panic \/ rv.value # instruction.value
                THEN Outcome("Ok", Panicked(d))
                ELSE Outcome("Ok", d)

\* step as it would be if an instruction that assigned pc were not followed
\* by "self.pc += 1"
step_keeps_assigned_pc(d, program, checks) ==
    IF d.pc + 1 \in DOMAIN program
    THEN LET o == execute_instruction(d, program[d.pc + 1], checks)
             assigned == \/ program[d.pc + 1].op \in {"CallLocal", "Return"}
                         \/ /\ program[d.pc + 1].op = "Jump"
                            /\ jump_taken(d.flags, program[d.pc + 1].jt)
         IN  IF o.err # "Ok" \/ o.d.panic \/ assigned THEN o
             ELSE Outcome("Ok", [o.d EXCEPT !.pc = o.d.pc + 1])
    ELSE Outcome("EndCode", d)

\* Devola::step without the debug trace: the value returned and the machine
step(d, program, checks) ==
    IF d.pc + 1 \in DOMAIN program
    THEN LET o == execute_instruction(d, program[d.pc + 1], checks)
         IN  IF o.err # "Ok" \/ o.d.panic THEN o
             ELSE Outcome("Ok", [o.d EXCEPT !.pc = o.d.pc + 1])
    ELSE Outcome("EndCode", d)

\* run as it would be if it handed EndCode to its caller
run_return_raw(err) == err

\* Devola::run, the value returned once step() has returned the error err
run_return(err) == IF err = "EndCode" THEN "Ok" ELSE err

\* ------------------------------------------------- parser.rs, intermediate
\* jump_table of process_labels: label -> index of the _Label that names it
\* (the last one, as collect() into a HashMap keeps the last insertion)
\* jump_table as it would be if the first definition of a label won
jump_table_first_definition(code) ==
    LET at(label) == {i \in 1..Len(code) :
                         code[i].op = "_Label" /\ code[i].name = label}
        labels == {code[i].name : i \in {j \in 1..Len(code) : code[j].op = "_Label"}}
    IN  [label \in labels |->
            (CHOOSE i \in at(label) : \A j \in at(label) : j >= i) - 1]

\* jump_table of process_labels: the (label, pc) pairs of the _Label
\* instructions collected into a map, where a later pair replaces an earlier
\* pair with the same label
jump_table(code) ==
    LET at(label) == {i \in 1..Len(code) :
                         code[i].op = "_Label" /\ code[i].name = label}
        labels == {code[i].name : i \in {j \in 1..Len(code) : code[j].op = "_Label"}}
    IN  [label \in labels |->
            (CHOOSE i \in at(label) : \A j \in at(label) : j <= i) - 1]

\* resolve as it would be if a _Label were dropped instead of becoming a Nop
RECURSIVE resolve_drops_labels(_, _, _)
resolve_drops_labels(code, table, i) ==
    IF i > Len(code) THEN << >>
    ELSE LET instruction == code[i]
             rest == resolve_drops_labels(code, table, i + 1)
             known == instruction.name \in DOMAIN table
         IN  CASE instruction.op = "_LabeledJump" ->
                    IF known
                    THEN << Jump(instruction.jt, table[instruction.name]) >> \o rest
                    ELSE rest
               [] instruction.op = "_LabeledCall" ->
                    IF known THEN << CallLocal(table[instruction.name]) >> \o rest
                    ELSE rest
               [] instruction.op = "_Label" -> rest
               [] OTHER -> << instruction >> \o rest

\* the filter_map of process_labels over the lines i, i+1, ... of code
RECURSIVE resolve(_, _, _)
resolve(code, table, i) ==
    IF i > Len(code) THEN << >>
    ELSE LET instruction == code[i]
             rest == resolve(code, table, i + 1)
             known == instruction.name \in DOMAIN table
         IN  CASE instruction.op = "_LabeledJump" ->
                    IF known
                    THEN << Jump(instruction.jt, table[instruction.name]) >> \o rest
                    ELSE rest
               [] instruction.op = "_LabeledCall" ->
                    IF known THEN << CallLocal(table[instruction.name]) >> \o rest
                    ELSE rest
               [] instruction.op = "_Label" -> << Nop >> \o rest
               [] OTHER -> << instruction >> \o rest

\* missing_labels as it would be if a missing label were reported once
RECURSIVE missing_labels_once_per_name(_, _, _)
missing_labels_once_per_name(code, table, i) ==
    IF i > Len(code) THEN << >>
    ELSE LET instruction == code[i]
             rest == missing_labels_once_per_name(code, table, i + 1)
         IN  IF /\ instruction.op \in {"_LabeledJump", "_LabeledCall"}
                /\ instruction.name \notin DOMAIN table
                /\ \A j \in 1..(i - 1) :
                      ~(code[j].op \in {"_LabeledJump", "_LabeledCall"}
                        /\ code[j].name = instruction.name)
             THEN << << instruction.name, i - 1 >> >> \o rest
             ELSE rest

\* missing_labels of process_labels: (label, line) of every labeled jump or
\* call whose label is not in the jump table
RECURSIVE missing_labels(_, _, _)
missing_labels(code, table, i) ==
    IF i > Len(code) THEN << >>
    ELSE LET instruction == code[i]
             rest == missing_labels(code, table, i + 1)
         IN  IF /\ instruction.op \in {"_LabeledJump", "_LabeledCall"}
                /\ instruction.name \notin DOMAIN table
             THEN << << instruction.name, i - 1 >> >> \o rest
             ELSE rest

\* process_labels: Ok((filtered, symbol table)) or Err(missing_labels)
process_labels(code) ==
    LET table == jump_table(code)
        missing == missing_labels(code, table, 1)
    IN  IF Len(missing) > 0
        THEN [ok |-> FALSE, code |-> << >>, symbols |-> << >>, missing |-> missing]
        ELSE [ok |-> TRUE, code |-> resolve(code, table, 1),
              symbols |-> [pc \in {table[l] : l \in DOMAIN table} |->
                              CHOOSE l \in DOMAIN table : table[l] = pc],
              missing |-> << >>]

\* ------------------------------------------------- parser.rs, text
\* A string is the sequence of its characters, each a string of length one.
Lower ==
    << "a", "b", "c", "d", "e", "f", "g", "h", "i", "j", "k", "l", "m",
       "n", "o", "p", "q", "r", "s", "t", "u", "v", "w", "x", "y", "z" >>

Upper ==
    << "A", "B", "C", "D", "E", "F", "G", "H", "I", "J", "K", "L", "M",
       "N", "O", "P", "Q", "R", "S", "T", "U", "V", "W", "X", "Y", "Z" >>

Digits == << "0", "1", "2", "3", "4", "5", "6", "7", "8", "9" >>

Occurs(s, c) == \E i \in 1..Len(s) : s[i] = c

Position(s, c) == CHOOSE i \in 1..Len(s) : s[i] = c

\* char::to_ascii_uppercase and str::to_ascii_uppercase
char_to_ascii_uppercase(c) == IF Occurs(Lower, c) THEN Upper[Position(Lower, c)] ELSE c

to_ascii_uppercase(s) == [i \in 1..Len(s) |-> char_to_ascii_uppercase(s[i])]

\* char::to_digit(radix): the digit value of c, or -1
to_digit(c, radix) ==
    LET u == char_to_ascii_uppercase(c)
        v == IF Occurs(Digits, u) THEN Position(Digits, u) - 1
             ELSE IF Occurs(Upper, u) THEN Position(Upper, u) + 9
             ELSE -1
    IN  IF v < radix THEN v ELSE -1

\* u64::to_string: the decimal digits of n
RECURSIVE to_string(_)
to_string(n) ==
    IF n < 10 THEN << Digits[n + 1] >>
    ELSE Append(to_string(n \div 10), Digits[(n % 10) + 1])

\* Result values
Ok(v) == [ok |-> TRUE, value |-> v]

Err(e) == [ok |-> FALSE, error |-> e]

\* struct ParseError; info is Some(info)
ParseError(error_type, location, info) ==
    [error_type |-> error_type, location |-> location, info |-> info]

\* Register::try_from(char)
register_try_from(value) ==
    LET u == char_to_ascii_uppercase(value)
    IN  CASE u = "A" -> Ok("Accumulator")
          [] u = "B" -> Ok("UtilityB")
          [] u = "C" -> Ok("UtilityC")
          [] u = "X" -> Ok("IndexX")
          [] u = "Y" -> Ok("IndexY")
          [] OTHER -> Err(ParseError("InvalidRegister", 0, << value >>))

\* Flag::try_from(char)
flag_try_from(value) ==
    LET u == char_to_ascii_uppercase(value)
    IN  CASE u = "C" -> Ok("Carry")
          [] u = "P" -> Ok("Parity")
          [] u = "S" -> Ok("Sign")
          [] u = "Z" -> Ok("Zero")
          [] OTHER -> Err(ParseError("InvalidFlag", 0, << value >>))

\* the digits num[i..] appended to the value acc in the base radix; -1 for a
\* character that is no digit of the base or a value above u16::MAX
RECURSIVE parse_digits(_, _, _, _)
parse_digits(num, radix, i, acc) ==
    IF i > Len(num) THEN acc
    ELSE LET v == to_digit(num[i], radix)
         IN  IF v < 0 \/ acc * radix + v > 65535 THEN -1
             ELSE parse_digits(num, radix, i + 1, acc * radix + v)

\* u16::from_str_radix(num, radix): the value, or -1 for Err; an unsigned
\* type accepts a leading "+" that digits follow
from_str_radix(num, radix) ==
    IF num = << >> THEN -1
    ELSE IF num[1] = "+"
         THEN IF Len(num) = 1 THEN -1 ELSE parse_digits(num, radix, 2, 0)
         ELSE parse_digits(num, radix, 1, 0)

ends_with(s, c) == Len(s) > 0 /\ s[Len(s)] = c

\* text::to_literal
to_literal(arg) ==
    LET base == IF ends_with(arg, "H") THEN 16
                ELSE IF ends_with(arg, "B") THEN 2
                ELSE 10
        num == IF base # 10 THEN SubSeq(arg, 1, Len(arg) - 1) ELSE arg
        literal == from_str_radix(num, base)
    IN  IF literal >= 0 THEN Ok(literal)
        ELSE Err(ParseError("InvalidNumericLiteral", 0, arg))

\* the mode of #literal: Indirect, or the error of the literal
indirect_mode(address) ==
    IF address.ok THEN Ok(Indirect(address.value)) ELSE address

\* the mode of a literal: Immediate, or InvalidNumericLiteral above 255, or
\* the error of the literal
immediate_mode(literal) ==
    IF ~literal.ok THEN literal
    ELSE IF literal.value > 255
    THEN Err(ParseError("InvalidNumericLiteral", 0, to_string(literal.value)))
    ELSE Ok(Immediate(literal.value))

\* text::to_addressing_mode; the argument is not empty (an empty one panics)
to_addressing_mode(arg0) ==
    LET arg == to_ascii_uppercase(arg0)
        register == register_try_from(arg[1])
    IN  IF arg = << "X", "Y" >> THEN Ok(Index)
        ELSE IF register.ok THEN Ok(Register(register.value))
        ELSE IF arg[1] = "#" THEN indirect_mode(to_literal(SubSeq(arg, 2, Len(arg))))
        ELSE immediate_mode(to_literal(arg))

\* the character classes of the regular expressions: \s ("space"), and in
\* a case-insensitive expression [abcxy] ("register"), [czsp] ("flag"),
\* [0-9a-f] ("hex"), [a-z] ("letter"), and \w ("word")
InClass(c, class) ==
    LET letter == Occurs(Lower, c) \/ Occurs(Upper, c)
    IN  CASE class = "space" -> c \in {" ", "\t"}
          [] class = "register" -> char_to_ascii_uppercase(c) \in {"A", "B", "C", "X", "Y"}
          [] class = "flag" -> char_to_ascii_uppercase(c) \in {"C", "Z", "S", "P"}
          [] class = "hex" -> to_digit(c, 16) >= 0
          [] class = "letter" -> letter
          [] class = "word" -> letter \/ Occurs(Digits, c) \/ c = "_"

\* the number of characters of line from position i on that are of the class
RECURSIVE RunLength(_, _, _)
RunLength(line, i, class) ==
    IF i > Len(line) \/ ~InClass(line[i], class) THEN 0
    ELSE 1 + RunLength(line, i + 1, class)

\* the literal text lit stands at position i of line, in any letter case
LiteralAt(line, i, lit) ==
    /\ i + Len(lit) - 1 <= Len(line)
    /\ \A k \in 1..Len(lit) :
          char_to_ascii_uppercase(line[i + k - 1]) = char_to_ascii_uppercase(lit[k])

\* the least number of a set of positions, or 0 for the empty set
Least(S) == IF S = {} THEN 0 ELSE CHOOSE i \in S : \A j \in S : i <= j

\* the least position of line at which the pattern matches, or 0
FirstMatch(line, Matches(_)) == Least({i \in 1..Len(line) : Matches(i)})

\* what #?[0-9a-f]+[bh]? matches at position i; empty for no match.  The
\* digits are matched greedily and nothing follows the group, so the match is
\* the longest one.  need_hash makes the # mandatory.
NumberAt(line, i, need_hash) ==
    LET hash == i <= Len(line) /\ line[i] = "#"
        first == IF hash THEN i + 1 ELSE i
        n == RunLength(line, first, "hex")
        after == first + n
        suffix == after <= Len(line)
                    /\ char_to_ascii_uppercase(line[after]) \in {"B", "H"}
    IN  IF n = 0 \/ (need_hash /\ ~hash) THEN << >>
        ELSE SubSeq(line, i, IF suffix THEN after ELSE after - 1)

\* ANY_SOURCE: what (?<source>[abcxy]|#?[0-9a-f]+[bh]?|XY) captures at
\* position i, the first alternative that matches; empty for no match
ANY_SOURCE(line, i) ==
    IF i <= Len(line) /\ InClass(line[i], "register") THEN << line[i] >>
    ELSE IF NumberAt(line, i, FALSE) # << >> THEN NumberAt(line, i, FALSE)
    ELSE IF LiteralAt(line, i, << "X", "Y" >>) THEN SubSeq(line, i, i + 1)
    ELSE << >>

\* ONLY_INDIRECT: what (?<source>#[0-9a-f]+[bh]?|XY) captures at position i
ONLY_INDIRECT(line, i) ==
    IF NumberAt(line, i, TRUE) # << >> THEN NumberAt(line, i, TRUE)
    ELSE IF LiteralAt(line, i, << "X", "Y" >>) THEN SubSeq(line, i, i + 1)
    ELSE << >>

\* what (?<label>[a-z]\w*) captures at position i; the case-sensitive
\* INST_LABEL accepts only a lower-case first letter
LabelAt(line, i, any_case) ==
    IF i <= Len(line) /\ (IF any_case THEN InClass(line[i], "letter") ELSE Occurs(Lower, line[i]))
    THEN SubSeq(line, i, i + RunLength(line, i + 1, "word"))
    ELSE << >>

\* what the group of an instruction's expression captures at position i:
\* a source, a register ([abcxy]), a label in any case, or nothing where the
\* expression has no group (which always matches)
OperandAt(group, line, i) ==
    CASE group = "ANY_SOURCE" -> ANY_SOURCE(line, i)
      [] group = "ONLY_INDIRECT" -> ONLY_INDIRECT(line, i)
      [] group = "register" ->
            IF i <= Len(line) /\ InClass(line[i], "register") THEN << line[i] >> ELSE << >>
      [] group = "label" -> LabelAt(line, i, TRUE)
      [] group = "none" -> << " " >>

\* the position at which mnemonic, a register, a space and a source match
TargetSourceMatch(line, mnemonic, group) ==
    LET n == Len(mnemonic)
        Matches(i) == /\ LiteralAt(line, i, mnemonic)
                      /\ i + n <= Len(line) /\ InClass(line[i + n], "register")
                      /\ LiteralAt(line, i + n + 1, << " " >>)
                      /\ OperandAt(group, line, i + n + 2) # << >>
    IN  FirstMatch(line, Matches)

\* the position at which the keyword and the group after it match
KeywordMatch(line, keyword, group) ==
    LET Matches(i) == /\ LiteralAt(line, i, keyword)
                      /\ OperandAt(group, line, i + Len(keyword)) # << >>
    IN  FirstMatch(line, Matches)

\* INST_CONDITIONAL_JUMP at position i: n? takes an n when the rest matches
\* after it, and is empty otherwise.  with_n says which of the two is tried.
ConditionalJumpAt(line, i, with_n) ==
    LET f == IF with_n THEN i + 2 ELSE i + 1
    IN  /\ LiteralAt(line, i, IF with_n THEN << "j", "n" >> ELSE << "j" >>)
        /\ f <= Len(line) /\ InClass(line[f], "flag")
        /\ LiteralAt(line, f + 1, << " " >>)
        /\ LabelAt(line, f + 2, TRUE) # << >>

\* INST_LABEL: the position of the label and the label
LabelMatch(line) ==
    LET Matches(i) == /\ LabelAt(line, i, FALSE) # << >>
                      /\ LiteralAt(line, i + Len(LabelAt(line, i, FALSE)), << ":" >>)
    IN  FirstMatch(line, Matches)

\* the instruction Make builds from the mode of an operand, or the error of
\* the operand
operand_instruction(addressing_mode, Make(_)) ==
    IF addressing_mode.ok THEN Ok(Make(addressing_mode.value)) ELSE addressing_mode

\* the instruction of an operand instruction, or the operand's error
WithMode(source, Make(_)) == operand_instruction(to_addressing_mode(source), Make)

\* the positions at which the expressions INST_LOAD .. INST_LABEL match in
\* line, 0 for no match
InstructionMatches(line) ==
    [load |-> TargetSourceMatch(line, << "l", "d" >>, "ANY_SOURCE"),
     store |-> TargetSourceMatch(line, << "s", "t" >>, "ONLY_INDIRECT"),
     inc |-> KeywordMatch(line, << "i", "n", "c" >>, "none"),
     dec |-> KeywordMatch(line, << "d", "e", "c" >>, "none"),
     add |-> KeywordMatch(line, << "a", "d", "d", " " >>, "ANY_SOURCE"),
     sub |-> KeywordMatch(line, << "s", "u", "b", " " >>, "ANY_SOURCE"),
     cmp |-> KeywordMatch(line, << "c", "m", "p", " " >>, "ANY_SOURCE"),
     jmp |-> KeywordMatch(line, << "j", "m", "p", " " >>, "label"),
     jcc |-> FirstMatch(line, LAMBDA i : ConditionalJumpAt(line, i, TRUE)
                                            \/ ConditionalJumpAt(line, i, FALSE)),
     call |-> KeywordMatch(line, << "c", "a", "l", "l", " " >>, "label"),
     ret |-> KeywordMatch(line, << "r", "e", "t" >>, "none"),
     push |-> KeywordMatch(line, << "p", "u", "s", "h", " " >>, "register"),
     pop |-> KeywordMatch(line, << "p", "o", "p", " " >>, "register"),
     nop |-> KeywordMatch(line, << "n", "o", "p" >>, "none"),
     label |-> LabelMatch(line)]

\* the conditional jump that INST_CONDITIONAL_JUMP matches at position jcc
conditional_jump(line, jcc) ==
    LET with_n == ConditionalJumpAt(line, jcc, TRUE)
        f == IF with_n THEN jcc + 2 ELSE jcc + 1
    IN  LabeledJump(Flag(flag_try_from(line[f]).value, ~with_n),
                    LabelAt(line, f + 2, TRUE))

\* the chain of to_instruction: the instruction of the first expression, in
\* the order of the source, that matches at a position at
matched_instruction(line, location, at) ==
    IF at.load > 0
    THEN WithMode(ANY_SOURCE(line, at.load + 4),
                  LAMBDA m : Load(register_try_from(line[at.load + 2]).value, m))
    ELSE IF at.store > 0
    THEN WithMode(ONLY_INDIRECT(line, at.store + 4),
                  LAMBDA m : Store(register_try_from(line[at.store + 2]).value, m))
    ELSE IF at.inc > 0 THEN Ok(Increment)
    ELSE IF at.dec > 0 THEN Ok(Decrement)
    ELSE IF at.add > 0 THEN WithMode(ANY_SOURCE(line, at.add + 4), Add)
    ELSE IF at.sub > 0 THEN WithMode(ANY_SOURCE(line, at.sub + 4), Subtract)
    ELSE IF at.cmp > 0 THEN WithMode(ANY_SOURCE(line, at.cmp + 4), Compare)
    ELSE IF at.jmp > 0
    THEN Ok(LabeledJump(Unconditional, LabelAt(line, at.jmp + 4, TRUE)))
    ELSE IF at.jcc > 0 THEN Ok(conditional_jump(line, at.jcc))
    ELSE IF at.call > 0 THEN Ok(LabeledCall(LabelAt(line, at.call + 5, TRUE)))
    ELSE IF at.ret > 0 THEN Ok(Return)
    ELSE IF at.push > 0 THEN Ok(Push(register_try_from(line[at.push + 5]).value))
    ELSE IF at.pop > 0 THEN Ok(Pop(register_try_from(line[at.pop + 4]).value))
    ELSE IF at.nop > 0 THEN Ok(Nop)
    ELSE IF at.label > 0 THEN Ok(Label(LabelAt(line, at.label, FALSE)))
    ELSE Err(ParseError("InvalidInstruction", location, line))

\* text::to_instruction
to_instruction(line, location) ==
    matched_instruction(line, location, InstructionMatches(line))

\* Regex::replace of the first match of \s{2,} by one space
replace_duplicate_space(line) ==
    LET Matches(i) == InClass(line[i], "space") /\ i < Len(line) /\ InClass(line[i + 1], "space")
        i == FirstMatch(line, Matches)
    IN  IF i = 0 THEN line
        ELSE SubSeq(line, 1, i - 1) \o << " " >>
               \o SubSeq(line, i + RunLength(line, i, "space"), Len(line))

\* Regex::replace of \s+$ by nothing
RECURSIVE remove_trailing_space(_)
remove_trailing_space(line) ==
    IF Len(line) > 0 /\ InClass(line[Len(line)], "space")
    THEN remove_trailing_space(SubSeq(line, 1, Len(line) - 1))
    ELSE line

\* the four replacements preprocess makes in a line: of ^\s+ by nothing,
\* of \s{2,} by one space, of ;.*$ by nothing, and of \s+$ by nothing
trim(line) ==
    LET leading == SubSeq(line, 1 + RunLength(line, 1, "space"), Len(line))
        single == replace_duplicate_space(leading)
        IsSemicolon(i) == single[i] = ";"
        comment == FirstMatch(single, IsSemicolon)
    IN  remove_trailing_space(IF comment = 0 THEN single
                              ELSE SubSeq(single, 1, comment - 1))

\* text::preprocess of the lines loc, loc + 1, ... of the text (numbered from
\* 0): the (loc, trimmed) pairs of the lines that are not blank
RECURSIVE preprocess(_, _)
preprocess(lines, loc) ==
    IF loc >= Len(lines) THEN << >>
    ELSE LET trimmed == trim(lines[loc + 1])
         IN  (IF trimmed = << >> THEN << >> ELSE << << loc, trimmed >> >>)
                \o preprocess(lines, loc + 1)

\* the results of to_instruction for the preprocessed lines, in their order
Parsed(preprocessed) ==
    [k \in 1..Len(preprocessed) |->
        to_instruction(preprocessed[k][2], preprocessed[k][1])]

\* the instructions (ok = TRUE) or the errors (ok = FALSE) among the results
Collected(results, ok) ==
    LET selected == SelectSeq(results, LAMBDA r : r.ok = ok)
    IN  [k \in 1..Len(selected) |-> IF ok THEN selected[k].value ELSE selected[k].error]

\* the errors of the labels that process_labels did not find
missing_errors(missing) ==
    [k \in 1..Len(missing) |-> ParseError("InvalidLabel", missing[k][2], missing[k][1])]

\* what compile returns for the outcome of process_labels
label_pass(processed) ==
    IF ~processed.ok
    THEN [ok |-> FALSE, code |-> << >>, symbols |-> << >>,
          errors |-> missing_errors(processed.missing)]
    ELSE [ok |-> TRUE, code |-> processed.code, symbols |-> processed.symbols,
          errors |-> << >>]

\* what compile returns for the instructions and the errors of the lines:
\* the errors if there are any, and the outcome of process_labels otherwise
parse_pass(instructions, parse_errors) ==
    IF Len(parse_errors) > 0
    THEN [ok |-> FALSE, code |-> << >>, symbols |-> << >>, errors |-> parse_errors]
    ELSE label_pass(process_labels(instructions))

\* compile as it would be if it resolved the labels of the lines that parsed
\* and returned the errors of both passes
compile_reports_both(lines) ==
    LET results == Parsed(preprocess(lines, 0))
        parse_errors == Collected(results, FALSE)
        processed == process_labels(Collected(results, TRUE))
    IN  IF Len(parse_errors) > 0 \/ ~processed.ok
        THEN [ok |-> FALSE, code |-> << >>, symbols |-> << >>,
              errors |-> parse_errors \o missing_errors(processed.missing)]
        ELSE label_pass(processed)

\* the instructions and the errors of the results, handed to parse_pass
compile_results(results) ==
    parse_pass(Collected(results, TRUE), Collected(results, FALSE))

\* text::compile of the text with these lines: Ok((code, symbols)) or
\* Err(errors)
compile(lines) == compile_results(Parsed(preprocess(lines, 0)))

\* ------------------------------------------------- stdlib.rs
\* what a library call leaves: the memory, the value returned, and whether
\* it panicked
CallOutcome(m, value, panic) == [memory |-> m, value |-> value, panic |-> panic]

\* the loop "for i in first..end { memory[i] = 0 }": the memory after
\* MemWrite(m, i, 0) for every i of first..(end - 1), which is empty when
\* end <= first
clear_cells(m, first, end) ==
    [x \in (DOMAIN m) \ (first..(end - 1)) |-> m[x]]

\* stdlib::memclear: start+size is a u16 addition, which panics with overflow
\* checks and wraps without, leaving a range that ends before it starts
memclear(m, start, size, checks) ==
    IF start + size > 65535
    THEN IF checks THEN CallOutcome(m, << >>, TRUE)
         ELSE CallOutcome(clear_cells(m, start, (start + size) % 65536), << >>, FALSE)
    ELSE CallOutcome(clear_cells(m, start, start + size), << >>, FALSE)

\* stdlib::memgetn: the slice memory[start..start+size]; a slice whose end
\* has wrapped below its start panics
memgetn(m, start, size, checks) ==
    LET end == IF start + size > 65535 THEN (start + size) % 65536 ELSE start + size
    IN  IF (start + size > 65535 /\ checks) \/ end < start
        THEN CallOutcome(m, << >>, TRUE)
        ELSE CallOutcome(m, [i \in 1..(end - start) |-> MemRead(m, start + i - 1)], FALSE)

\* the loop "for i in i..size { memory[destination+i] = source[i] }"
RECURSIVE memset_from(_, _, _, _, _, _)
memset_from(m, source, destination, size, i, checks) ==
    IF i >= size THEN CallOutcome(m, << >>, FALSE)
    ELSE IF (destination + i > 65535 /\ checks) \/ i >= Len(source)
    THEN CallOutcome(m, << >>, TRUE)
    ELSE memset_from(MemWrite(m, (destination + i) % 65536, source[i + 1]),
                     source, destination, size, i + 1, checks)

\* stdlib::memset
memset(m, source, destination, size, checks) ==
    memset_from(m, source, destination, size, 0, checks)

\* the loop "for i in i..size { memory[destination+i] = memory[source+i] }":
\* both sums are u16 additions
RECURSIVE memcpy_from(_, _, _, _, _, _)
memcpy_from(m, source, destination, size, i, checks) ==
    IF i >= size THEN CallOutcome(m, << >>, FALSE)
    ELSE IF checks /\ (destination + i > 65535 \/ source + i > 65535)
    THEN CallOutcome(m, << >>, TRUE)
    ELSE memcpy_from(MemWrite(m, (destination + i) % 65536,
                              MemRead(m, (source + i) % 65536)),
                     source, destination, size, i + 1, checks)

\* stdlib::memcpy
memcpy(m, source, destination, size, checks) ==
    memcpy_from(m, source, destination, size, 0, checks)

\* interface::i_memclear: the four pops, in the order of the source, and
\* memclear on the memory they leave
i_memclear(d, checks) ==
    LET size_lo == pop(d, checks)
        size_hi == pop(size_lo.d, checks)
        start_lo == pop(size_hi.d, checks)
        start_hi == pop(start_lo.d, checks)
        size == build_u16(size_hi.value, size_lo.value)
        start == build_u16(start_hi.value, start_lo.value)
    IN  IF start_hi.d.panic THEN CallOutcome(d.memory, << >>, TRUE)
        ELSE memclear(start_hi.d.memory, start, size, checks)

\* interface::i_memcpy: the six pops and memcpy
i_memcpy(d, checks) ==
    LET size_lo == pop(d, checks)
        size_hi == pop(size_lo.d, checks)
        dest_lo == pop(size_hi.d, checks)
        dest_hi == pop(dest_lo.d, checks)
        source_lo == pop(dest_hi.d, checks)
        source_hi == pop(source_lo.d, checks)
        size == build_u16(size_hi.value, size_lo.value)
        destination == build_u16(dest_hi.value, dest_lo.value)
        source == build_u16(source_hi.value, source_lo.value)
    IN  IF source_hi.d.panic THEN CallOutcome(d.memory, << >>, TRUE)
        ELSE memcpy(source_hi.d.memory, source, destination, size, checks)

\* ------------------------------------------------- inter/mmio.rs
SCREEN_WIDTH == 256
SCREEN_HEIGHT == 224
VRAM == 24576
PALETTE_START == VRAM + 0
COLOR_SIZE == 2
PALETTE_LENGTH == 16
PALETTE_SIZE == COLOR_SIZE * PALETTE_LENGTH
PALETTE_COUNT == 8
PALETTE_OFFSET == PALETTE_START + PALETTE_SIZE * PALETTE_COUNT
TILEMAP_START == PALETTE_OFFSET
TILE_LENGTH == 8
TILE_SIZE == TILE_LENGTH * TILE_LENGTH
TILEMAP_LENGTH == 16
TILEMAP_SIZE == TILE_SIZE * TILEMAP_LENGTH * TILEMAP_LENGTH
TILEMAP_COUNT == 2
TILEMAP_OFFSET == TILEMAP_START + TILEMAP_SIZE * TILEMAP_COUNT
BG_START == TILEMAP_OFFSET
BG_WIDTH == SCREEN_WIDTH \div TILE_LENGTH
BG_HEIGHT == SCREEN_HEIGHT \div TILE_LENGTH
BG_SIZE == BG_WIDTH * BG_HEIGHT
BG_COUNT == 4
BG_OFFSET == BG_START + BG_SIZE * BG_COUNT
SPRITE_START == BG_OFFSET
SPRITE_SIZE == 5
SPRITE_COUNT == 128

\* ------------------------------------------------- inter/gfx.rs, colors
Color(r, g, b) == [r |-> r, g |-> g, b |-> b]

\* x << n on a u16
ShiftLeft16(x, n) == (x * Pow2(n)) % 65536

\* rgb15_to_color: each channel is a u8 product 8 * (field as u8), which
\* panics with overflow checks and wraps without them when it exceeds 255
rgb15_to_color(color_word, checks) ==
    LET r == 8 * (ShiftRight(color_word, 10) % 256)
        g == 8 * (BitAnd(ShiftRight(color_word, 5), 31) % 256)
        b == 8 * (BitAnd(color_word, 31) % 256)
    IN  [panic |-> checks /\ (r > 255 \/ g > 255 \/ b > 255),
         color |-> Color(r % 256, g % 256, b % 256)]

\* color_to_rgb15 as it would be if red and blue changed places
color_to_rgb15_blue_first(color) ==
    BitOr(BitOr(ShiftLeft16(color.b \div 8, 10), ShiftLeft16(color.g \div 8, 5)),
          color.r \div 8)

\* color_to_rgb15
color_to_rgb15(color) ==
    BitOr(BitOr(ShiftLeft16(color.r \div 8, 10), ShiftLeft16(color.g \div 8, 5)),
          color.b \div 8)

\* ------------------------------------------------- gfx/model.rs, sprites
\* SpriteSize::from(u8)
SpriteSize_from(value) ==
    CASE value = 0 -> "X8"
      [] value = 1 -> "X16"
      [] value = 2 -> "X32"
      [] OTHER -> "X64"

\* SpriteSize::size
SpriteSize_size(sprite_size) ==
    CASE sprite_size = "X8" -> 64
      [] sprite_size = "X16" -> 256
      [] sprite_size = "X32" -> 1024
      [] sprite_size = "X64" -> 4096

\* SpriteSize::pitch
SpriteSize_pitch(sprite_size) ==
    CASE sprite_size = "X8" -> 8
      [] sprite_size = "X16" -> 16
      [] sprite_size = "X32" -> 32
      [] sprite_size = "X64" -> 64

\* SpriteProperties::from(u8) as it would be if the palette index were
\* taken from the bits 5..3
SpriteProperties_palette_shifted(value) ==
    [tilemap_index |-> ShiftRight(value, 7),
     size |-> SpriteSize_from(BitAnd(ShiftRight(value, 5), 3)),
     palette_index |-> BitAnd(ShiftRight(value, 3), 7),
     priority |-> BitAnd(value, 3)]

\* SpriteProperties::from(u8)
SpriteProperties_from(value) ==
    [tilemap_index |-> ShiftRight(value, 7),
     size |-> SpriteSize_from(BitAnd(ShiftRight(value, 5), 3)),
     palette_index |-> BitAnd(ShiftRight(value, 2), 7),
     priority |-> BitAnd(value, 3)]

\* Sprite::deserialize of the five bytes data[0..5]
Sprite_deserialize(data) ==
    [properties |-> SpriteProperties_from(data[1]),
     location |-> << data[2], data[3] >>,
     gfx_start |-> data[4],
     info |-> data[5]]

\* ------------------------------------------------- inter/gfx.rs, VRAMModel
\* what enable_sprite and disable_sprite leave: the model, and whether the
\* index was out of the bounds of the sprites
VRAMOutcome(vram, panic) == [vram |-> vram, panic |-> panic]

\* self.sprites[sprite_index].info = info; sprites is numbered from 1 here
set_info(vram, sprite_index, info) ==
    [vram EXCEPT !.sprites[sprite_index + 1].info = info]

\* enable_sprite as it would be if it set the whole info byte to 1
enable_sprite_sets_byte(vram, sprite_index) ==
    IF sprite_index >= SPRITE_COUNT THEN VRAMOutcome(vram, TRUE)
    ELSE VRAMOutcome(set_info(vram, sprite_index, 1), FALSE)

\* VRAMModel::enable_sprite
enable_sprite(vram, sprite_index) ==
    IF sprite_index >= SPRITE_COUNT THEN VRAMOutcome(vram, TRUE)
    ELSE VRAMOutcome(set_info(vram, sprite_index,
                              BitOr(vram.sprites[sprite_index + 1].info, 1)), FALSE)

\* VRAMModel::disable_sprite
disable_sprite(vram, sprite_index) ==
    IF sprite_index >= SPRITE_COUNT THEN VRAMOutcome(vram, TRUE)
    ELSE VRAMOutcome(set_info(vram, sprite_index,
                              BitAnd(vram.sprites[sprite_index + 1].info, 254)), FALSE)

\* ------------------------------------------------- inter/gfx.rs, VRAMDeserialize
\* the regions whose members implement dimensions()
Regions == {"Palette", "Tilemap", "Background", "Sprite"}

\* dimensions(): the start of the region and the size of a member
dimensions(region) ==
    CASE region = "Palette" -> << PALETTE_START, PALETTE_SIZE >>
      [] region = "Tilemap" -> << TILEMAP_START, TILEMAP_SIZE >>
      [] region = "Background" -> << BG_START, BG_SIZE >>
      [] region = "Sprite" -> << SPRITE_START, SPRITE_SIZE >>

\* Palette::deserialize: the sixteen colors of the words of the data; a
\* panic of rgb15_to_color is a panic of the whole
Palette_deserialize(data, checks) ==
    LET colors == [i \in 1..PALETTE_LENGTH |->
                      rgb15_to_color(build_u16(data[2 * i - 1], data[2 * i]), checks)]
    IN  [panic |-> \E i \in 1..PALETTE_LENGTH : colors[i].panic,
         value |-> [colors |-> [i \in 1..PALETTE_LENGTH |-> colors[i].color]]]

\* Tilemap::deserialize: the tiles of the chunks of TILE_SIZE bytes
Tilemap_deserialize(data) ==
    [tiles |-> [t \in 1..(Len(data) \div TILE_SIZE) |->
                   [pixels |-> SubSeq(data, TILE_SIZE * (t - 1) + 1, TILE_SIZE * t)]]]

\* Background::deserialize
Background_deserialize(data) == [tiles |-> data]

\* Self::deserialize(data) of the member of the region
deserialize(region, data, checks) ==
    CASE region = "Palette" -> Palette_deserialize(data, checks)
      [] region = "Tilemap" -> [panic |-> FALSE, value |-> Tilemap_deserialize(data)]
      [] region = "Background" -> [panic |-> FALSE, value |-> Background_deserialize(data)]
      [] region = "Sprite" -> [panic |-> FALSE, value |-> Sprite_deserialize(data)]

\* what get_nth does with the slice memgetn returned
deserialized(region, slice, checks) ==
    IF slice.panic THEN [panic |-> TRUE, data |-> << >>, value |-> << >>]
    ELSE [panic |-> deserialize(region, slice.value, checks).panic,
          data |-> slice.value,
          value |-> deserialize(region, slice.value, checks).value]

\* get_nth as it would be if the members were numbered from 1
get_nth_from_one(m, region, index, checks) ==
    LET start == dimensions(region)[1]
        member == dimensions(region)[2]
        product == member * (index - 1)
        sum == start + (product % 65536)
    IN  IF checks /\ (product < 0 \/ product > 65535 \/ sum > 65535)
        THEN [panic |-> TRUE, data |-> << >>, value |-> << >>]
        ELSE deserialized(region, memgetn(m, sum % 65536, member, checks), checks)

\* VRAMDeserialize::get_nth: start+size*index is computed in u16, the
\* product first
get_nth(m, region, index, checks) ==
    LET start == dimensions(region)[1]
        member == dimensions(region)[2]
        product == member * index
        sum == start + (product % 65536)
    IN  IF checks /\ (product > 65535 \/ sum > 65535)
        THEN [panic |-> TRUE, data |-> << >>, value |-> << >>]
        ELSE deserialized(region, memgetn(m, sum % 65536, member, checks), checks)

\* ------------------------------------------------- render/context.rs
\* sdl2's Rect::new(x, y, width, height)
Rect(x, y, width, height) == [x |-> x, y |-> y, width |-> width, height |-> height]

\* what render_sprite leaves: whether it panicked, the slice of tiles it
\* selected, the updates of the sprite texture in their order, and the
\* rectangle of the canvas the texture was copied to
RenderOutcome(panic, tiles, updates, screen_destination) ==
    [panic |-> panic, tiles |-> tiles, updates |-> updates,
     screen_destination |-> screen_destination]

RenderPanic == RenderOutcome(TRUE, << >>, << >>, << >>)

\* the bytes [color.r, color.g, color.b] of the pixels of the tile
absolute_colors(tile, palette) ==
    [k \in 1..(3 * Len(tile.pixels)) |->
        LET color == palette.colors[tile.pixels[(k + 2) \div 3] + 1]
        IN  CASE k % 3 = 1 -> color.r
              [] k % 3 = 2 -> color.g
              [] OTHER -> color.b]

\* the closure of render_sprite's for_each for the tile at index, as it would
\* be if the tiles were placed TILE_LENGTH pixels apart
tile_update_by_length(index, tile, palette, tile_pitch) ==
    [rect |-> Rect((index % tile_pitch) * TILE_LENGTH, (index \div tile_pitch) * TILE_LENGTH,
                   TILE_LENGTH, TILE_LENGTH),
     pixel_data |-> absolute_colors(tile, palette),
     pitch |-> 3 * TILE_LENGTH]

\* the closure of render_sprite's for_each for the tile at index: the
\* destination rectangle, and the update of the texture
tile_update(index, tile, palette, tile_pitch) ==
    [rect |-> Rect((index % tile_pitch) * tile_pitch, (index \div tile_pitch) * tile_pitch,
                   tile_pitch, tile_pitch),
     pixel_data |-> absolute_colors(tile, palette),
     pitch |-> 3 * TILE_LENGTH]

\* render_sprite from the slice on: palette.colors[...] panics for a pixel
\* that is no index of the palette
render_tiles(sprite, tiles, palette, pitch, tile_pitch) ==
    IF \E t \in 1..Len(tiles) : \E i \in 1..TILE_SIZE : tiles[t].pixels[i] >= PALETTE_LENGTH
    THEN RenderPanic
    ELSE RenderOutcome(FALSE, tiles,
                       [t \in 1..Len(tiles) |-> tile_update(t - 1, tiles[t], palette, tile_pitch)],
                       Rect(sprite.location[1], sprite.location[2], pitch, pitch))

\* render_sprite from the tile count on: sprite.gfx_start + tile_count is a
\* u8 sum, which panics with overflow checks and wraps without them, and
\* the slice panics when it starts after its end
render_slice(sprite, tilemap, palette, pitch, tile_pitch, tile_count, checks) ==
    IF sprite.gfx_start + tile_count > 255 /\ checks THEN RenderPanic
    ELSE IF sprite.gfx_start > (sprite.gfx_start + tile_count) % 256 THEN RenderPanic
    ELSE render_tiles(sprite,
                      SubSeq(tilemap.tiles, sprite.gfx_start + 1,
                             (sprite.gfx_start + tile_count) % 256),
                      palette, pitch, tile_pitch)

\* render_sprite of a sprite of the model
render_found(vrammodel, sprite, pitch, checks) ==
    render_slice(sprite,
                 vrammodel.tilemaps[sprite.properties.tilemap_index + 1],
                 vrammodel.palettes[sprite.properties.palette_index + 1],
                 pitch, pitch \div TILE_LENGTH,
                 ((pitch \div TILE_LENGTH) * (pitch \div TILE_LENGTH)) % 256, checks)

\* RenderContext::render_sprite
render_sprite(vrammodel, sprite_index, checks) ==
    IF sprite_index >= SPRITE_COUNT THEN RenderPanic
    ELSE render_found(vrammodel, vrammodel.sprites[sprite_index + 1],
                      SpriteSize_pitch(vrammodel.sprites[sprite_index + 1].properties.size),
                      checks)

\* ------------------------------------------------- loop programs
\* the source of test_square with n in place of 5, without the final assertion
SquareSource(n) ==
    << Load("Accumulator", Immediate(0)),
       Load("UtilityB", Immediate(n)),
       Load("UtilityC", Immediate(0)),
       Label("loop"),
       Compare(Register("UtilityB")),
       LabeledJump(Flag("Zero", TRUE), "end_loop"),
       Push("Accumulator"),
       Load("Accumulator", Register("UtilityC")),
       Add(Register("UtilityB")),
       Load("UtilityC", Register("Accumulator")),
       Pop("Accumulator"),
       Increment,
       LabeledJump(Unconditional, "loop"),
       Label("end_loop") >>

\* the values of n: from no iteration, over the test's 5, to the first squares
\* that wrap modulo 256 (16 * 16 = 256, 17 * 17 = 289)
SquareInputs == 0..MaxN

\* number of step() calls followed along one behaviour of a loop program: the
\* 9 * n + 6 instructions the longest loop executes, and two more calls
MaxLoopSteps == 9 * MaxN + 8

SquarePrograms == {process_labels(SquareSource(n)).code : n \in SquareInputs}

\* the source of test_subroutine_square
SubroutineSource ==
    << LabeledJump(Unconditional, "main"),
       Label("square"),
       Push("Accumulator"),
       Push("UtilityC"),
       Load("Accumulator", Immediate(0)),
       Load("UtilityC", Immediate(0)),
       Label("loop"),
       Compare(Register("UtilityB")),
       LabeledJump(Flag("Zero", TRUE), "end_loop"),
       Push("Accumulator"),
       Load("Accumulator", Register("UtilityC")),
       Add(Register("UtilityB")),
       Load("UtilityC", Register("Accumulator")),
       Pop("Accumulator"),
       Increment,
       LabeledJump(Unconditional, "loop"),
       Label("end_loop"),
       Load("UtilityB", Register("UtilityC")),
       Pop("UtilityC"),
       Pop("Accumulator"),
       Return,
       AssertInstr(Immediate(0), 1),
       Label("main"),
       Load("UtilityB", Immediate(13)),
       LabeledCall("square"),
       AssertInstr(Register("UtilityB"), 13 * 13),
       Load("UtilityB", Immediate(12)),
       LabeledCall("square"),
       AssertInstr(Register("UtilityB"), 12 * 12),
       Load("UtilityB", Immediate(3)),
       LabeledCall("square"),
       AssertInstr(Register("UtilityB"), 3 * 3) >>

SubroutineProgram == process_labels(SubroutineSource).code

\* number of step() calls followed along one behaviour of the subroutine
\* program: the jump to main, 9 * n + 14 instructions for each call of square
\* with B = n, the step() that finds the end of the code, and two more calls
MaxSubroutineSteps == 1 + (9 * 13 + 14) + (9 * 12 + 14) + (9 * 3 + 14) + 3

\* ------------------------------------------------- state
VARIABLES
    code,            \* Devola.code, fixed at construction
    pc,              \* Devola.pc
    memory,          \* Devola.memory.memory
    flags,           \* Devola.memory.flags
    registers,       \* Devola.memory.registers
    overflow_checks, \* the build: TRUE = integer overflow panics
    panicked,        \* a panic has ended the process
    result,          \* what the last step() returned ("None" before the first)
    in_run,          \* run() is executing its loop
    run_result,      \* what the last run() returned ("None" until it returns)
    steps,           \* number of step() calls so far
    step_limit,      \* number of step() calls followed along this behaviour
    last,            \* history: the last step() call
    prior,           \* history: the step() call before it
    frames,          \* history: the Call(Local) instructions that have not returned
    input,           \* the argument of the assembler or library function called
    output           \* what that call returned (NoOutput before it returns)

vars == << code, pc, memory, flags, registers, overflow_checks, panicked, result,
           in_run, run_result, steps, step_limit, last, prior, frames,
           input, output >>

\* no assembler or library function has been called
NoInput == << >>

NoOutput == [done |-> FALSE, value |-> << >>]

\* the value v has been returned
Returned(v) == [done |-> TRUE, value |-> v]

\* the machine of the current state, as a value
Machine ==
    [pc |-> pc, memory |-> memory, flags |-> flags, registers |-> registers,
     panic |-> FALSE]

\* the current stack pointer
SP == get_stack_pointer(Machine)

NoInstr == Instr("None", "None", NoMode, NoJump, 0, "", 0)

NoFrame ==
    [p |-> 0, sp |-> 0, depth |-> 0, open |-> FALSE, balanced |-> FALSE,
     sp_stored |-> FALSE, ret_stored |-> FALSE,
     registers |-> [r \in Registers |-> 0]]

\* the instruction step() fetches in the current state
Fetched == IF pc + 1 \in DOMAIN code THEN code[pc + 1] ELSE NoInstr

TopFrame == IF frames = << >> THEN NoFrame ELSE frames[Len(frames)]

\* the cells that hold the return address pushed by a Call at stack pointer sp
ReturnCells(sp) == {(sp - 1) % 65536, (sp - 2) % 65536}

StackPointerCells == {STACK_POINTER_MSB, STACK_POINTER_LSB}

\* history of the open calls after the instruction fetched from machine d
\* has executed with outcome o
next_frames(fs, instruction, d, o, checks) ==
    LET op == instruction.op
        n == Len(fs)
        addr == store_dest(d, instruction.mode, checks).addr
    IN  IF o.err # "Ok" \/ o.d.panic THEN fs
        ELSE CASE op = "CallLocal" ->
                    Append(fs, [p |-> d.pc, sp |-> get_stack_pointer(d), depth |-> 0,
                                open |-> TRUE, balanced |-> TRUE,
                                sp_stored |-> FALSE, ret_stored |-> FALSE,
                                registers |-> d.registers])
               [] op = "Return" /\ n > 1 ->
                    [SubSeq(fs, 1, n - 1) EXCEPT ![n - 1].balanced =
                        @ /\ fs[n].balanced /\ fs[n].depth = 0]
               [] op = "Return" /\ n <= 1 -> << >>
               [] op = "Push" /\ n > 0 -> [fs EXCEPT ![n].depth = @ + 1]
               [] op = "Pop" /\ n > 0 ->
                    IF fs[n].depth > 0
                    THEN [fs EXCEPT ![n].depth = @ - 1]
                    ELSE [fs EXCEPT ![n].balanced = FALSE]
               [] op = "Store" ->
                    [i \in 1..n |->
                        [fs[i] EXCEPT
                            !.sp_stored = @ \/ addr \in StackPointerCells,
                            !.ret_stored = @ \/ addr \in ReturnCells(fs[i].sp)]]
               [] OTHER -> fs

\* all sequences over S of length at most n
Seqs(S, n) == UNION {[1..k -> S] : k \in 0..n}

\* Devola::new(code, None)
new(program) ==
    /\ code = program
    /\ pc = 0
    /\ memory = write_stack_pointer(EmptyMemory, INITIAL_STACK_POINTER)
    /\ flags = 0
    /\ registers = [r \in Registers |-> 0]

\* a machine built for one of the programs, followed for bound step() calls
InitMachine(programs, bound) ==
    /\ \E program \in programs : new(program)
    /\ step_limit = bound
    /\ overflow_checks \in BOOLEAN
    /\ panicked = FALSE
    /\ result = "None"
    /\ in_run = FALSE
    /\ run_result = "None"
    /\ steps = 0
    /\ last = [instr |-> NoInstr,
               before |-> [pc |-> 0, memory |-> EmptyMemory, flags |-> 0,
                           registers |-> [r \in Registers |-> 0], panic |-> FALSE],
               err |-> "None", frame |-> NoFrame]
    /\ prior = last
    /\ frames = << >>

\* such a machine, in a process that calls no assembler or library function
InitBounded(programs, bound) ==
    /\ InitMachine(programs, bound)
    /\ input = NoInput
    /\ output = NoOutput

\* a process about to call an assembler function with one of the inputs; its
\* machine has no code and is not stepped
InitCall(inputs) ==
    /\ InitMachine({<< >>}, 0)
    /\ input \in inputs
    /\ output = NoOutput

\* the variables of the machine and its history
machine_vars ==
    << code, pc, memory, flags, registers, overflow_checks, panicked, result,
       in_run, run_result, steps, step_limit, last, prior, frames >>

InitWith(programs) == InitBounded(programs, MaxSteps)

\* one call of step() on the current machine, with outcome o
DoStep(o) ==
    /\ pc' = o.d.pc
    /\ memory' = o.d.memory
    /\ flags' = o.d.flags
    /\ registers' = o.d.registers
    /\ panicked' = o.d.panic
    /\ result' = IF o.d.panic THEN result ELSE o.err
    /\ steps' = steps + 1
    /\ last' = [instr |-> Fetched, before |-> Machine,
                err |-> IF o.d.panic THEN "Panic" ELSE o.err,
                frame |-> TopFrame]
    /\ prior' = last
    /\ frames' = next_frames(frames, Fetched, Machine, o, overflow_checks)
    /\ UNCHANGED << code, overflow_checks, step_limit, input, output >>

\* the host calls step()
Step ==
    /\ ~panicked /\ ~in_run /\ steps < step_limit
    /\ DoStep(step(Machine, code, overflow_checks))
    /\ UNCHANGED << in_run, run_result >>

\* the host calls run()
Run ==
    /\ ~panicked /\ ~in_run
    /\ in_run' = TRUE
    /\ run_result' = "None"
    /\ UNCHANGED << code, pc, memory, flags, registers, overflow_checks, panicked,
                    result, steps, step_limit, last, prior, frames, input, output >>

\* one iteration of the loop of run()
RunLoop ==
    /\ ~panicked /\ in_run /\ steps < step_limit
    /\ LET o == step(Machine, code, overflow_checks)
       IN  /\ DoStep(o)
           /\ IF o.d.panic \/ o.err = "Ok"
              THEN UNCHANGED << in_run, run_result >>
              ELSE /\ in_run' = FALSE
                   /\ run_result' = run_return(o.err)

Next == Step \/ Run \/ RunLoop

\* the machine after the last step() equals the machine before it
MachineUnchanged ==
    /\ pc = last.before.pc
    /\ memory = last.before.memory
    /\ flags = last.before.flags
    /\ registers = last.before.registers

\* the last step() executed an instruction with this op and returned Ok
Executed(op) == last.instr.op = op /\ last.err = "Ok"

\* ------------------------------------------------- programs
\* Stack programs.  A program first leaves the stack pointer where Devola::new
\* put it or moves it by storing to its MMIO cells (to 0x0000, or next to the
\* MMIO cells themselves), and then runs a short sequence of stack
\* instructions, a Push/Pop pair of some register, or a call of a subroutine
\* whose body is balanced.
MoveStackPointer ==
    { << >>, << Load("IndexY", Immediate(7)) >>,
      << Store("Accumulator", Indirect(STACK_POINTER_MSB)) >> }
    \cup { << Load("IndexY", Immediate(v)), Store("IndexY", Indirect(STACK_POINTER_LSB)) >>
            : v \in {241, 242, 243} }

StackInstrs ==
    { Push("IndexX"), Pop("IndexX"), CallLocal(1), CallLocal(2), Return,
      Store("Accumulator", Indirect(STACK_POINTER_LSB)),
      Store("IndexY", Indirect(INITIAL_STACK_POINTER - 2)) }

PushPopPrograms ==
    { m \o << Load(r, Immediate(v)), Push(r), Pop(r) >> :
        m \in MoveStackPointer, r \in Registers, v \in {0, 7, 242} }

BalancedBodies ==
    { << Push("IndexX"), Pop("IndexX") >>,
      << Push("IndexY"), Push("IndexX"), Pop("IndexX"), Pop("IndexY") >> }

CallPrograms ==
    { m \o << CallLocal(Len(m)) >> \o b \o << Return >> :
        m \in MoveStackPointer, b \in BalancedBodies }

StackPrograms ==
    { m \o b : m \in MoveStackPointer, b \in Seqs(StackInstrs, MaxLen) }
    \cup PushPopPrograms \cup CallPrograms

InitStack == InitWith(StackPrograms)

SpecStack == InitStack /\ [][Next]_vars

\* Control programs: flag-setting instructions with one jump among them,
\* every jump type and every target up to one past the longest program.
JumpTypes == {Unconditional} \cup {Flag(f, b) : f \in Flags, b \in BOOLEAN}

JumpInstrs == {Jump(jt, t) : jt \in JumpTypes, t \in 0..(MaxLen + 1)}

FlagSetters == {Compare(Immediate(0)), Compare(Immediate(128)), Increment}

ControlPrograms ==
    UNION { { [i \in 1..k |-> IF i = at THEN j ELSE base[i]] :
                base \in [1..k -> FlagSetters], at \in 1..k, j \in JumpInstrs }
            : k \in 1..MaxLen }

InitControl == InitWith(ControlPrograms)

SpecControl == InitControl /\ [][Next]_vars

\* Flag programs: A and B loaded with boundary bytes, then every short
\* sequence of the instructions that write flags, with B as the operand.
ByteSamples == {0, 1, 127, 128, 255}

ArithInstrs ==
    { Increment, Decrement,
      Add(Register("UtilityB")), Subtract(Register("UtilityB")),
      AddXY(Register("UtilityB")), SubtractXY(Register("UtilityB")),
      Compare(Register("UtilityB")), Compare(Immediate(1)) }

FlagPrograms ==
    { << Load("Accumulator", Immediate(a)), Load("UtilityB", Immediate(x)) >> \o b :
        a \in ByteSamples, x \in ByteSamples, b \in Seqs(ArithInstrs, MaxLen - 1) }

InitFlags == InitWith(FlagPrograms)

SpecFlags == InitFlags /\ [][Next]_vars

\* Driver programs: every short sequence of valid and invalid stores, a
\* library call, a failing assertion, and jumps inside and past the program.
DriverInstrs ==
    { Load("Accumulator", Immediate(9)),
      Store("Accumulator", Indirect(5)),
      Store("Accumulator", Register("IndexX")),
      Store("Accumulator", Immediate(5)),
      CallLibrary("memclear"),
      AssertInstr(Indirect(5), 9),
      Jump(Unconditional, 0),
      Jump(Unconditional, MaxLen + 1) }

DriverPrograms == Seqs(DriverInstrs, MaxLen)

Init == InitWith(DriverPrograms)

Spec == Init /\ [][Next]_vars

\* Index programs: A = 17 and X:Y at the bottom, at a page boundary or at the
\* top of memory, then every short sequence of loads and stores through
\* X:Y, through X:Y plus an offset and through a fixed address.
IndexSetups ==
    { << Load("Accumulator", Immediate(17)), Load("IndexX", Immediate(x)),
         Load("IndexY", Immediate(y)) >> :
        x \in {0, 255}, y \in {0, 255} } 

IndexInstrs ==
    { Store("Accumulator", Index), Store("Accumulator", IndexOffset(1)),
      Load("UtilityB", Index), Load("UtilityB", IndexOffset(1)),
      Load("UtilityC", Indirect(255)), Load("IndexX", Register("Accumulator")),
      SubtractXY(Immediate(1)) }

\* the program of test_load_store, without the assertions between its
\* instructions
LoadStoreProgram ==
    << Load("Accumulator", Immediate(10)),
       Store("Accumulator", Indirect(5)),
       Load("IndexX", Register("Accumulator")),
       Load("IndexX", Immediate(240)),
       Load("IndexY", Immediate(0)),
       Store("IndexX", Index) >>

IndexPrograms ==
    { m \o b : m \in IndexSetups, b \in Seqs(IndexInstrs, MaxLen) }
    \cup { LoadStoreProgram }

InitIndex == InitWith(IndexPrograms)

SpecIndex == InitIndex /\ [][Next]_vars

\* Loop programs: the square loop for each input; once run() is called its
\* loop keeps iterating.
InitSquare == InitBounded(SquarePrograms, MaxLoopSteps)

\* ENABLED <<RunLoop>>_vars: the guard of RunLoop (its step always adds 1 to
\* steps)
RunLoopEnabled == ~panicked /\ in_run /\ steps < step_limit

\* weak fairness of RunLoop, WF_vars(RunLoop), with its ENABLED written out:
\* the loop of run() is not left forever at an iteration it can make
RunLoopFair == []<>(~RunLoopEnabled) \/ []<><<RunLoop>>_vars

SpecSquare == InitSquare /\ [][Next]_vars /\ RunLoopFair

\* Label resolution.  The instruction lists are short lists over what
\* to_instruction produces for a label, a jump, a conditional jump, a call
\* and one other line; "label" and "label2" are defined wherever a _Label
\* names them, "missing" is referenced and never defined.
LabelInstrs ==
    {Label("label"), Label("label2"),
     LabeledJump(Unconditional, "label"), LabeledJump(Flag("Zero", TRUE), "label2"),
     LabeledJump(Unconditional, "missing"),
     LabeledCall("label"), LabeledCall("label2"), LabeledCall("missing"),
     Load("Accumulator", Immediate(10))}

LabelInputs == Seqs(LabelInstrs, MaxLen)

InitLabels == InitCall(LabelInputs)

\* the caller passes the instruction list to process_labels
ProcessLabels ==
    /\ ~output.done
    /\ output' = Returned(process_labels(input))
    /\ UNCHANGED << machine_vars, input >>

SpecLabels == InitLabels /\ [][ProcessLabels]_vars

\* Operand parsing.  The operands are the register names and XY in both
\* cases, every literal of up to MaxDigits digits with or without a base
\* suffix and a leading #, and longer literals around the limits of 8 and 16
\* bits.
LiteralDigits == {"0", "1", "2", "5", "9", "a", "B", "c", "F", "f"}

Suffixes == {<< >>, << "b" >>, << "B" >>, << "h" >>, << "H" >>}

LongLiterals ==
    {<< "6", "5", "5", "3", "5" >>, << "6", "5", "5", "3", "6" >>,
     << "F", "F", "F", "F", "h" >>, << "1", "0", "0", "0", "0", "h" >>,
     << "1", "1", "1", "1", "1", "1", "1", "1", "b" >>,
     << "1", "0", "0", "0", "0", "0", "0", "0", "0", "B" >>}

RegisterOperands ==
    {<< c >> : c \in {"a", "A", "b", "B", "c", "C", "x", "X", "y", "Y"}}
        \cup {<< x, y >> : x \in {"x", "X"}, y \in {"y", "Y"}}

OperandInputs ==
    RegisterOperands
        \cup {hash \o digits \o suffix :
                 hash \in {<< >>, << "#" >>},
                 digits \in (Seqs(LiteralDigits, MaxDigits) \ {<< >>}) \cup LongLiterals,
                 suffix \in Suffixes}

InitOperand == InitCall(OperandInputs)

\* to_instruction passes the captured operand to to_addressing_mode
ToAddressingMode ==
    /\ ~output.done
    /\ output' = Returned(to_addressing_mode(input))
    /\ UNCHANGED << machine_vars, input >>

SpecOperand == InitOperand /\ [][ToAddressingMode]_vars

\* Source texts.  A text is the sequence of its lines (what str::lines
\* yields): a blank line, a comment, "nop", a jump and a call to the label
\* far that no line defines, a conditional jump to the label end and the line
\* that defines it, a load of 256, which fits no byte, a line that is no
\* instruction, the instructions that take the operand XY, and a load of a
\* hexadecimal literal that begins with a letter.
SourceLines ==
    {<< >>,
     << ";", " ", "c" >>,
     << "n", "o", "p" >>,
     << "j", "m", "p", " ", "f", "a", "r" >>,
     << "c", "a", "l", "l", " ", "f", "a", "r" >>,
     << "j", "n", "z", " ", "e", "n", "d" >>,
     << "e", "n", "d", ":" >>,
     << "l", "d", "a", " ", "2", "5", "6" >>,
     << "b", "o", "g", "u", "s" >>,
     << "l", "d", "b", " ", "x", "y" >>,
     << "a", "d", "d", " ", "x", "y" >>,
     << "s", "u", "b", " ", "X", "Y" >>,
     << "c", "m", "p", " ", "X", "y" >>,
     << "s", "t", "a", " ", "x", "y" >>,
     << "l", "d", "c", " ", "A", "0", "h" >>}

SourceTexts == Seqs(SourceLines, MaxLines)

InitCompile == InitCall(SourceTexts)

\* the caller passes the text to compile
Compile ==
    /\ ~output.done
    /\ output' = Returned(compile(input))
    /\ UNCHANGED << machine_vars, input >>

SpecCompile == InitCompile /\ [][Compile]_vars

\* Label names.  The caller compiles a text of two lines, a label definition
\* "name:" and a jump or call to the name, in either order; the names are
\* plain ones, ones that contain inc, dec, ret or nop, and ones that start
\* with an upper-case letter.
LabelNames ==
    {<< "l", "o", "o", "p" >>, << "l", "1" >>, << "a", "_", "b" >>, << "e", "n", "d" >>,
     << "i", "n", "c", "r" >>, << "d", "e", "c", "o", "d", "e" >>,
     << "r", "e", "t", "r", "y" >>, << "n", "o", "p", "e" >>,
     << "L", "o", "o", "p" >>, << "T", "o", "p" >>}

JumpWords ==
    {<< "j", "m", "p", " " >>, << "j", "z", " " >>, << "j", "n", "c", " " >>,
     << "c", "a", "l", "l", " " >>}

LabelText(name, word, defined_first) ==
    IF defined_first THEN << name \o << ":" >>, word \o name >>
    ELSE << word \o name, name \o << ":" >> >>

LabelTexts ==
    {LabelText(name, word, defined_first) :
        name \in LabelNames, word \in JumpWords, defined_first \in BOOLEAN}

InitLabelNames == InitCall(LabelTexts)

SpecLabelNames == InitLabelNames /\ [][Compile]_vars

\* Library calls.  The host calls memclear, memset and memgetn on a machine
\* that is not running: a new machine, the machine test_memgetn_clear finds
\* after execute_file (the bytes 0..255 hold their own addresses), or one
\* whose last bytes are set.  The ranges lie at the bottom of the memory,
\* around the identity pattern and at the top, up to and beyond the last byte.
LibraryMemories ==
    LET fresh == write_stack_pointer(EmptyMemory, INITIAL_STACK_POINTER)
        identity == [a \in (1..255) \cup DOMAIN fresh |->
                        IF a \in 1..255 THEN a ELSE fresh[a]]
        top == MemWrite(MemWrite(MemWrite(fresh, 65533, 7), 65534, 8), 65535, 9)
    IN  {fresh, identity, top}

LibraryCalls ==
    LET starts == {0, 254, 65280, 65535}
        sizes == {0, 1, 4, 256}
    IN  [fn : {"memclear", "memgetn"}, start : starts, size : sizes, source : {<< >>}]
            \cup [fn : {"memset"}, start : starts, size : sizes \ {256},
                  source : {<< 3, 14, 1, 5 >>}]

InitLibrary ==
    /\ code = << >>
    /\ pc = 0
    /\ memory \in LibraryMemories
    /\ flags = 0
    /\ registers = [r \in Registers |-> 0]
    /\ step_limit = 0
    /\ overflow_checks \in BOOLEAN
    /\ panicked = FALSE
    /\ result = "None"
    /\ in_run = FALSE
    /\ run_result = "None"
    /\ steps = 0
    /\ last = [instr |-> NoInstr,
               before |-> [pc |-> 0, memory |-> EmptyMemory, flags |-> 0,
                           registers |-> [r \in Registers |-> 0], panic |-> FALSE],
               err |-> "None", frame |-> NoFrame]
    /\ prior = last
    /\ frames = << >>
    /\ input = << >>
    /\ output = NoOutput

\* the outcome of the library call on the memory m
library_call(call, m, checks) ==
    CASE call.fn = "memclear" -> memclear(m, call.start, call.size, checks)
      [] call.fn = "memgetn" -> memgetn(m, call.start, call.size, checks)
      [] call.fn = "memset" -> memset(m, call.source, call.start, call.size, checks)

\* the host makes a library call; input is the sequence of the calls made
LibraryCall(call) ==
    /\ ~panicked /\ Len(input) < MaxCalls
    /\ LET o == library_call(call, memory, overflow_checks)
       IN  /\ memory' = o.memory
           /\ panicked' = o.panic
           /\ output' = IF o.panic THEN output ELSE Returned(o.value)
    /\ input' = Append(input, call)
    /\ UNCHANGED << code, pc, flags, registers, overflow_checks, result, in_run,
                    run_result, steps, step_limit, last, prior, frames >>

MemClear == \E call \in LibraryCalls : call.fn = "memclear" /\ LibraryCall(call)

MemGetN == \E call \in LibraryCalls : call.fn = "memgetn" /\ LibraryCall(call)

MemSet == \E call \in LibraryCalls : call.fn = "memset" /\ LibraryCall(call)

NextLibrary == MemClear \/ MemGetN \/ MemSet

SpecLibrary == InitLibrary /\ [][NextLibrary]_vars

\* Stack arguments.  A program fills some cells (at the bottom and the top of
\* the memory, and next to the stack and after the MMIO cells), pushes the
\* bytes of the arguments one by one, and ends; the host then calls the
\* function of the interface that takes these arguments.
FillCells == << 0, 1, 5, INITIAL_STACK_POINTER, MMIO + 16, 65534, 65535 >>

Fill ==
    << Load("Accumulator", Immediate(7)) >>
        \o [k \in 1..Len(FillCells) |-> Store("Accumulator", Indirect(FillCells[k]))]

\* the program that pushes these bytes, the first one first
PushProgram(bytes) ==
    Fill \o [k \in 1..(2 * Len(bytes)) |->
                IF k % 2 = 1 THEN Load("Accumulator", Immediate(bytes[(k + 1) \div 2]))
                ELSE Push("Accumulator")]

\* start_hi, start_lo, size_hi, size_lo
ClearArguments == {0, 15, 255} \X {0, 254} \X {0, 1} \X {0, 2}

\* source_hi, source_lo, dest_hi, dest_lo, size_hi, size_lo
CopyArguments == {0, 255} \X {0, 254} \X {0, 16, 255} \X {4, 253} \X {0} \X {0, 2, 3}

ClearPrograms == {PushProgram(bytes) : bytes \in ClearArguments}

CopyPrograms == {PushProgram(bytes) : bytes \in CopyArguments}

InitInterface ==
    InitBounded(ClearPrograms \cup CopyPrograms, Len(Fill) + 2 * 6 + 1)

\* the host calls a function of the interface, with outcome o
InterfaceCall(name, o) ==
    /\ ~panicked /\ ~in_run /\ ~output.done /\ pc = Len(code)
    /\ memory' = o.memory
    /\ panicked' = o.panic
    /\ output' = IF o.panic THEN output ELSE Returned(o.value)
    /\ input' = << name >>
    /\ UNCHANGED << code, pc, flags, registers, overflow_checks, result, in_run,
                    run_result, steps, step_limit, last, prior, frames >>

IMemClear ==
    /\ code \in ClearPrograms
    /\ InterfaceCall("i_memclear", i_memclear(Machine, overflow_checks))

IMemCpy ==
    /\ code \in CopyPrograms
    /\ InterfaceCall("i_memcpy", i_memcpy(Machine, overflow_checks))

NextInterface == Step \/ Run \/ RunLoop \/ IMemClear \/ IMemCpy

SpecInterface == InitInterface /\ [][NextInterface]_vars

\* Words and bytes.  The caller breaks a word and builds it again from the
\* pair, or builds a word from two bytes and breaks it again; output.value
\* holds the results in the order of the calls.
WordInputs ==
    [kind : {"word"}, word : 0..65535, msb : {0}, lsb : {0}]
        \cup [kind : {"pair"}, word : {0}, msb : 0..255, lsb : 0..255]

\* neither function has an operation that depends on the build
InitWords == InitCall(WordInputs) /\ ~overflow_checks

Results == output.value

BreakWord ==
    /\ Len(Results) = IF input.kind = "word" THEN 0 ELSE 1
    /\ output' = Returned(Append(Results,
                     break_u16(IF input.kind = "word" THEN input.word ELSE Results[1])))
    /\ UNCHANGED << machine_vars, input >>

BuildWord ==
    /\ Len(Results) = IF input.kind = "pair" THEN 0 ELSE 1
    /\ output' = Returned(Append(Results,
                     IF input.kind = "pair" THEN build_u16(input.msb, input.lsb)
                     ELSE build_u16(Results[1][1], Results[1][2])))
    /\ UNCHANGED << machine_vars, input >>

NextWords == BreakWord \/ BuildWord

SpecWords == InitWords /\ [][NextWords]_vars

\* Colors.  The caller converts a color word, any 16-bit word that
\* Palette::deserialize can build from two bytes, to a color and the color
\* back to a word.
InitColors == InitCall(0..65535)

RgbToColor ==
    /\ ~panicked /\ Len(Results) = 0
    /\ LET o == rgb15_to_color(input, overflow_checks)
       IN  /\ panicked' = o.panic
           /\ output' = IF o.panic THEN output ELSE Returned(<< o.color >>)
    /\ UNCHANGED << code, pc, memory, flags, registers, overflow_checks, result,
                    in_run, run_result, steps, step_limit, last, prior, frames, input >>

ColorToRgb ==
    /\ Len(Results) = 1
    /\ output' = Returned(Append(Results, color_to_rgb15(Results[1])))
    /\ UNCHANGED << machine_vars, input >>

NextColors == RgbToColor \/ ColorToRgb

SpecColors == InitColors /\ [][NextColors]_vars

\* Sprite records.  The caller deserializes the five bytes of a sprite: every
\* properties byte, and some locations, start indices and info bytes.
SpriteRecords == (0..255) \X {0, 128, 255} \X {0, 32} \X {0, 3, 255} \X {0, 1, 254}

InitSprite == InitCall(SpriteRecords) /\ ~overflow_checks

Deserialize ==
    /\ ~output.done
    /\ output' = Returned(Sprite_deserialize(input))
    /\ UNCHANGED << machine_vars, input >>

SpecSprite == InitSprite /\ [][Deserialize]_vars

\* VRAM models.  The caller holds a model, output.value, whose sprites have
\* different fields and info bytes (all 0, all 255, or a byte that depends on
\* the index), and enables and disables sprites of some indices, in and out
\* of the bounds; input is the sequence of the calls made.  The palettes,
\* tilemaps and backgrounds are stood for by one value each.
SpriteInfos == {[i \in 0..(SPRITE_COUNT - 1) |-> 0],
                [i \in 0..(SPRITE_COUNT - 1) |-> 255],
                [i \in 0..(SPRITE_COUNT - 1) |-> (3 * i) % 256]}

VRAMModels ==
    {[palettes |-> << 1, 2 >>, tilemaps |-> << 3, 4 >>, backgrounds |-> << 5, 6 >>,
      sprites |-> [k \in 1..SPRITE_COUNT |->
                      Sprite_deserialize(<< (7 * k) % 256, k, (2 * k) % 256, k - 1,
                                            infos[k - 1] >>)]]
        : infos \in SpriteInfos}

SpriteIndices == {0, 1, 5, 126, 127, 128, 255}

InitVRAM ==
    /\ InitMachine({<< >>}, 0)
    /\ ~overflow_checks
    /\ input = << >>
    /\ output \in [done : {FALSE}, value : VRAMModels]

\* the caller's call of enable_sprite or disable_sprite, with outcome o
SpriteCall(call, o) ==
    /\ ~panicked /\ Len(input) < MaxCalls
    /\ panicked' = o.panic
    /\ output' = IF o.panic THEN output ELSE Returned(o.vram)
    /\ input' = Append(input, call)
    /\ UNCHANGED << code, pc, memory, flags, registers, overflow_checks, result,
                    in_run, run_result, steps, step_limit, last, prior, frames >>

EnableSprite ==
    \E i \in SpriteIndices :
        SpriteCall([fn |-> "enable_sprite", index |-> i], enable_sprite(output.value, i))

DisableSprite ==
    \E i \in SpriteIndices :
        SpriteCall([fn |-> "disable_sprite", index |-> i], disable_sprite(output.value, i))

NextVRAM == EnableSprite \/ DisableSprite

SpecVRAM == InitVRAM /\ [][NextVRAM]_vars

\* Members of VRAM.  The memory is that of a new machine with VRAM all zero,
\* or with every VRAM byte set from its address, the high bytes of the color
\* words below 128 or not.  The caller gets a member of a region: every
\* member of the region, the one after the last, and one whose offset is
\* beyond 16 bits.
VRAMBytes(limit) ==
    LET fresh == write_stack_pointer(EmptyMemory, INITIAL_STACK_POINTER)
    IN  [a \in DOMAIN fresh \cup VRAM..65535 |->
            IF a \in DOMAIN fresh THEN fresh[a] ELSE 1 + ((a * 7) % limit)]

VRAMMemories ==
    {write_stack_pointer(EmptyMemory, INITIAL_STACK_POINTER), VRAMBytes(127), VRAMBytes(255)}

MemberCount(region) ==
    CASE region = "Palette" -> PALETTE_COUNT
      [] region = "Tilemap" -> TILEMAP_COUNT
      [] region = "Background" -> BG_COUNT
      [] region = "Sprite" -> SPRITE_COUNT

MemberCalls ==
    {[region |-> region, index |-> index] :
        region \in Regions, index \in 0..SPRITE_COUNT \cup {13108}}

\* a machine whose program has left one of the memories, and a caller that
\* has made no call yet
InitMemory(memories) ==
    /\ code = << >>
    /\ pc = 0
    /\ memory \in memories
    /\ flags = 0
    /\ registers = [r \in Registers |-> 0]
    /\ step_limit = 0
    /\ overflow_checks \in BOOLEAN
    /\ panicked = FALSE
    /\ result = "None"
    /\ in_run = FALSE
    /\ run_result = "None"
    /\ steps = 0
    /\ last = [instr |-> NoInstr,
               before |-> [pc |-> 0, memory |-> EmptyMemory, flags |-> 0,
                           registers |-> [r \in Registers |-> 0], panic |-> FALSE],
               err |-> "None", frame |-> NoFrame]
    /\ prior = last
    /\ frames = << >>
    /\ input = << >>
    /\ output = NoOutput

InitMembers == InitMemory(VRAMMemories)

GetNth ==
    \E call \in MemberCalls :
        /\ ~panicked /\ input = << >>
        /\ call.index <= MemberCount(call.region) \/ call.index = 13108
        /\ LET o == get_nth(memory, call.region, call.index, overflow_checks)
           IN  /\ panicked' = o.panic
               /\ output' = IF o.panic THEN output
                            ELSE Returned([data |-> o.data, value |-> o.value])
        /\ input' = << call >>
        /\ UNCHANGED << code, pc, memory, flags, registers, overflow_checks, result,
                        in_run, run_result, steps, step_limit, last, prior, frames >>

SpecMembers == InitMembers /\ [][GetNth]_vars

\* Rendering.  The render context is built with a model whose palettes
\* and tilemaps are filled, the second tilemap with one pixel that is no
\* palette index, and whose first sprite is read from five bytes: every size
\* and tilemap, and the starts of the tiles near both ends of the tilemap;
\* the other sprites are empty.  The caller renders a sprite once.
empty_sprite ==
    [properties |-> [tilemap_index |-> 0, size |-> "X8", palette_index |-> 0,
                     priority |-> 0],
     location |-> << 0, 0 >>, gfx_start |-> 0, info |-> 0]

RenderPalettes ==
    [p \in 1..PALETTE_COUNT |->
        [colors |-> [i \in 1..PALETTE_LENGTH |->
                        Color((8 * (p + i)) % 256, (8 * i) % 256, (8 * p) % 256)]]]

RenderTilemaps ==
    [m \in 1..TILEMAP_COUNT |->
        [tiles |-> [t \in 1..(TILEMAP_LENGTH * TILEMAP_LENGTH) |->
                       [pixels |-> [i \in 1..TILE_SIZE |->
                                       IF m = 2 /\ t = 201 /\ i = 5 THEN PALETTE_LENGTH
                                       ELSE (t + i) % PALETTE_LENGTH]]]]]

RenderSprites ==
    {Sprite_deserialize(<< 128 * tilemap + 32 * size_code + 4 * palette, 10, 20, gfx_start, 1 >>) :
        tilemap \in {0, 1}, size_code \in 0..3, palette \in {0, 7},
        gfx_start \in {0, 1, 191, 192, 193, 240, 252, 254, 255}}

RenderModels ==
    {[palettes |-> RenderPalettes, tilemaps |-> RenderTilemaps,
      backgrounds |-> [b \in 1..BG_COUNT |-> [tiles |-> [i \in 1..BG_SIZE |-> 0]]],
      sprites |-> [k \in 1..SPRITE_COUNT |-> IF k = 1 THEN sprite ELSE empty_sprite]]
        : sprite \in RenderSprites}

RenderIndices == {0, 5, 128}

InitRender ==
    /\ InitMachine({<< >>}, 0)
    /\ input = << >>
    /\ output \in [done : {FALSE},
                   value : [vrammodel : RenderModels, tiles : {<< >>}, updates : {<< >>},
                            screen_destination : {<< >>}]]

RenderSprite ==
    \E sprite_index \in RenderIndices :
        /\ ~panicked /\ input = << >>
        /\ LET o == render_sprite(output.value.vrammodel, sprite_index, overflow_checks)
           IN  /\ panicked' = o.panic
               /\ output' = IF o.panic THEN output
                            ELSE Returned([vrammodel |-> output.value.vrammodel,
                                           tiles |-> o.tiles, updates |-> o.updates,
                                           screen_destination |-> o.screen_destination])
        /\ input' = << sprite_index >>
        /\ UNCHANGED << code, pc, memory, flags, registers, overflow_checks, result,
                        in_run, run_result, steps, step_limit, last, prior, frames >>

SpecRender == InitRender /\ [][RenderSprite]_vars

\* Nested calls.  A program moves the stack pointer or leaves it, calls the
\* first of depth subroutines and jumps to its end; each subroutine but the
\* last runs a balanced body, calls the next, runs the body again and
\* returns; the last runs the body and returns.  A Call or Jump to the index
\* t continues at t + 1.
NestedBodies == BalancedBodies \cup {<< >>}

\* the subroutines i, i + 1, ..., depth, the first of them at the index start
RECURSIVE Subroutines(_, _, _, _)
Subroutines(body, depth, i, start) ==
    IF i = depth THEN body \o << Return >>
    ELSE body \o << CallLocal(start + 2 * Len(body) + 1) >> \o body \o << Return >>
           \o Subroutines(body, depth, i + 1, start + 2 * Len(body) + 2)

NestedProgram(move, body, depth) ==
    LET subroutines == Subroutines(body, depth, 1, Len(move) + 2)
    IN  move \o << CallLocal(Len(move) + 1),
                   Jump(Unconditional, Len(move) + 1 + Len(subroutines)) >>
             \o subroutines

NestedPrograms ==
    {NestedProgram(move, body, depth) :
        move \in MoveStackPointer, body \in NestedBodies, depth \in 1..MaxDepth}

\* number of step() calls followed along one behaviour of a nested program:
\* those of the longest program, and two more
MaxNestedSteps == 2 + 2 + MaxDepth * (2 * 4 + 2) + 2

InitNested == InitBounded(NestedPrograms, MaxNestedSteps)

SpecNested == InitNested /\ [][Next]_vars

\* the subroutine program of test_subroutine_square, run by the host's step()
\* calls, by run(), or by some step() calls and then run()
InitSubroutine == InitBounded({SubroutineProgram}, MaxSubroutineSteps)

SpecSubroutine == InitSubroutine /\ [][Next]_vars /\ RunLoopFair

\* ------------------------------------------------- stack claims
\* the stack pointer before the last step() and before the one prior to it
LastSP == get_stack_pointer(last.before)
PriorSP == get_stack_pointer(prior.before)

\* the last step() executed Pop(R) right after a step() that executed Push(R)
PushThenPop ==
    /\ Executed("Pop")
    /\ prior.instr = Push(last.instr.reg)
    /\ prior.err = "Ok"

PushPopRestores ==
    /\ registers[last.instr.reg] = prior.before.registers[last.instr.reg]
    /\ SP = PriorSP

\* the last step() executed the Return of a call with no net stack
\* manipulation since the Call: every Push matched by a later Pop, no Store to
\* a stack-pointer cell or to the two bytes of the saved return address
BalancedReturn ==
    /\ Executed("Return")
    /\ last.frame.open /\ last.frame.balanced /\ last.frame.depth = 0
    /\ ~last.frame.sp_stored /\ ~last.frame.ret_stored

ReturnResumes ==
    /\ pc = last.frame.p + 1
    /\ SP = last.frame.sp

\* C2 as claimed: a Call(Local) at index p whose subroutine returns with no
\* net stack manipulation in between leaves pc = p + 1 and the stack pointer
\* at its value before the Call
C2_CallReturnAsClaimed == BalancedReturn => ReturnResumes

\* C2 amended: the same, provided the two bytes of the return address were
\* not pushed onto the stack-pointer cells 0x0FF0/0x0FF1 (stack pointer at
\* the Call outside 0x0FF1..0x0FF3)
C2_CallReturn ==
    (BalancedReturn /\ ReturnCells(last.frame.sp) \cap StackPointerCells = {})
    => ReturnResumes

\* a Return of a subroutine that pushed and popped has resumed after its Call
C2_Witness ==
    /\ BalancedReturn
    /\ ReturnCells(last.frame.sp) \cap StackPointerCells = {}
    /\ prior.instr.op = "Pop" /\ prior.err = "Ok"
    /\ last.frame.p > 0
    /\ pc = last.frame.p + 1

\* C3 as claimed: in every state, Push(R) immediately followed by Pop(R)
\* leaves R and the stack pointer as they were before the Push
C3_PushPopAsClaimed == PushThenPop => PushPopRestores

\* C3 amended: the same, provided the pushed byte does not land on a
\* stack-pointer cell (stack pointer before the Push not 0x0FF1 or 0x0FF2)
C3_PushPop ==
    (PushThenPop /\ (PriorSP - 1) % 65536 \notin StackPointerCells)
    => PushPopRestores

\* a Push/Pop pair of a non-zero register next to the stack-pointer cells
C3_Witness ==
    /\ PushThenPop
    /\ PriorSP = STACK_POINTER_LSB + 2
    /\ registers[last.instr.reg] = 242
    /\ SP = PriorSP

\* C4 as claimed: after every step the stack pointer is within [0, 0x0F00]
C4_StackPointerRangeAsClaimed == SP <= INITIAL_STACK_POINTER

\* the last step() was one of the instructions that can take the stack
\* pointer out of [0, 0x0F00]: a Pop or Return above the initial stack, a
\* Push or Call that wraps below 0, a Store to a stack-pointer cell
LeavesStackRange ==
    \/ last.instr.op = "Pop" /\ LastSP + 1 > INITIAL_STACK_POINTER
    \/ last.instr.op = "Return" /\ LastSP + 2 > INITIAL_STACK_POINTER
    \/ last.instr.op = "Push" /\ LastSP < 1
    \/ last.instr.op = "CallLocal" /\ LastSP < 2
    \/ /\ last.instr.op = "Store"
       /\ store_dest(last.before, last.instr.mode, overflow_checks).addr
            \in StackPointerCells

\* C4 amended: the stack pointer is 0x0F00 after construction, and a step
\* keeps it within [0, 0x0F00] unless it is a Pop or Return that pops above
\* 0x0F00, a Push or Call that wraps below 0, or a Store to 0x0FF0/0x0FF1
C4_StackPointerRange ==
    /\ steps = 0 => SP = INITIAL_STACK_POINTER
    /\ (steps > 0 /\ LastSP <= INITIAL_STACK_POINTER /\ ~LeavesStackRange)
       => SP <= INITIAL_STACK_POINTER

\* calls, pushes and pops have moved the stack pointer inside the range
C4_Witness ==
    /\ Executed("Pop")
    /\ prior.instr.op = "CallLocal" /\ prior.err = "Ok"
    /\ ~LeavesStackRange
    /\ SP = INITIAL_STACK_POINTER - 1

\* ------------------------------------------------- control-flow claims
\* the last step() executed Jump(Unconditional, t)
UnconditionalJump == Executed("Jump") /\ last.instr.jt = Unconditional

\* the instruction at index i of the program, NoInstr past its end
At(i) == IF i + 1 \in DOMAIN code THEN code[i + 1] ELSE NoInstr

\* C1 as claimed: after a step that executes Jump(Unconditional, t), pc = t
\* and the next instruction executed is program[t]
C1_JumpAsClaimed == UnconditionalJump => (pc = last.instr.dest /\ Fetched = At(last.instr.dest))

\* C1 amended: after a step that executes Jump(Unconditional, t), pc = t + 1
\* (step() adds 1 to pc after every instruction that returns Ok, also after one
\* that assigned pc), so the next instruction executed is program[t + 1]
C1_Jump ==
    UnconditionalJump => (pc = last.instr.dest + 1 /\ Fetched = At(last.instr.dest + 1))

\* a jump away from the next index was followed by the instruction after its target
C1_Witness ==
    /\ prior.instr.op = "Jump" /\ prior.instr.jt = Unconditional /\ prior.err = "Ok"
    /\ prior.instr.dest # prior.before.pc
    /\ last.err = "Ok"
    /\ last.before.pc = prior.instr.dest + 1
    /\ last.instr = At(prior.instr.dest + 1)

\* bit positions of the flag byte: Carry 0, Zero 1, Parity 2, Sign 3
FlagBit(f) ==
    CASE f = "Carry" -> 1
      [] f = "Zero" -> 2
      [] f = "Parity" -> 4
      [] f = "Sign" -> 8

FlagIsSet(byte, f) == (byte \div FlagBit(f)) % 2 = 1

\* the last step() executed Jump(Flag(f, s), t)
ConditionalJump == Executed("Jump") /\ last.instr.jt.kind = "Flag"

JumpCondition == FlagIsSet(last.before.flags, last.instr.jt.flag) = last.instr.jt.set

StateKept ==
    /\ registers = last.before.registers
    /\ flags = last.before.flags
    /\ memory = last.before.memory

\* C9 as claimed: Jump(Flag(f, s), t) transfers control to t iff flag f equals
\* s, otherwise the next instruction is the one at pc + 1; registers, flags
\* and memory are unchanged
C9_ConditionalJumpAsClaimed ==
    ConditionalJump =>
        /\ JumpCondition => pc = last.instr.dest
        /\ ~JumpCondition => pc = last.before.pc + 1
        /\ StateKept

\* C9 amended: Jump(Flag(f, s), t) continues at t + 1 if flag f equals s and
\* at pc + 1 otherwise; registers, flags and memory are unchanged
C9_ConditionalJump ==
    ConditionalJump =>
        /\ JumpCondition => pc = last.instr.dest + 1
        /\ ~JumpCondition => pc = last.before.pc + 1
        /\ StateKept

\* a jump on a clear flag with sense false was taken, away from the next index
C9_Witness ==
    /\ ConditionalJump
    /\ last.instr.jt.set = FALSE
    /\ JumpCondition
    /\ last.before.flags # 0
    /\ last.instr.dest # last.before.pc
    /\ pc = last.instr.dest + 1

\* ------------------------------------------------- flag claims
\* C5: bits 4..7 of the flag byte are zero in every reachable state
C5_ReservedFlagBits == flags \div 16 = 0

\* all four flags are set at once
C5_Witness == flags = 15

\* the operand of the instruction of the last step(), read before it
LastOperand == resolve_rvalue(last.before, last.instr.mode, overflow_checks).value

LastA == last.before.registers["Accumulator"]

\* C10: Compare leaves the registers and memory unchanged and sets exactly
\* Zero iff A = x, Sign iff A and x agree in bit 7, Parity iff A and x agree in
\* bit 0, Carry iff A < x, whatever the flags were
C10_Compare ==
    Executed("Compare") =>
        /\ registers = last.before.registers
        /\ memory = last.before.memory
        /\ flags = (IF LastA < LastOperand THEN 1 ELSE 0)
                 + (IF LastA = LastOperand THEN 2 ELSE 0)
                 + (IF LastA % 2 = LastOperand % 2 THEN 4 ELSE 0)
                 + (IF LastA \div 128 = LastOperand \div 128 THEN 8 ELSE 0)

\* a Compare of bytes that differ in sign and parity cleared every flag
C10_Witness ==
    /\ Executed("Compare")
    /\ last.before.flags # 0
    /\ LastA > LastOperand
    /\ flags = 0

\* ------------------------------------------------- error claims
\* the last step() fetched a Store with a Register or Immediate destination
InvalidStore ==
    /\ last.instr.op = "Store"
    /\ last.instr.mode.kind \in {"Register", "Immediate"}

RunReturned(err) == ~in_run /\ run_result = err

\* C7: a Store to a Register or Immediate returns InvalidArgument and changes
\* nothing; a step after it returns the same error; run() returns that error
C7_InvalidStore ==
    /\ [](InvalidStore =>
            /\ last.err = "InvalidArgument" /\ result = "InvalidArgument"
            /\ MachineUnchanged)
    /\ []((prior.err = "InvalidArgument" /\ steps > 1) =>
            (last.err = "InvalidArgument" /\ last.instr = prior.instr))
    /\ [][(in_run /\ steps' = steps + 1 /\ Fetched.op = "Store"
            /\ Fetched.mode.kind \in {"Register", "Immediate"})
          => (~in_run' /\ run_result' = "InvalidArgument")]_vars

\* run() has returned InvalidArgument and a later step() returned it again
C7_Witness ==
    /\ InvalidStore
    /\ prior.err = "InvalidArgument" /\ last.err = "InvalidArgument"
    /\ RunReturned("InvalidArgument")
    /\ last.before.pc > 0

\* C8: step() returns EndCode exactly when pc is not an index of the program
\* and then changes nothing; run() returns Ok exactly when its step() found
\* pc past the end, having returned the error of any step that failed before
C8_EndCode ==
    /\ []((steps > 0) =>
            /\ last.err = "EndCode" <=> last.before.pc >= Len(code)
            /\ last.err = "EndCode" => (MachineUnchanged /\ result = "EndCode"))
    /\ [](run_result = "Ok" => (~in_run /\ pc >= Len(code) /\ result = "EndCode"))
    /\ [][(in_run /\ steps' = steps + 1 /\ ~panicked')
          => /\ (~in_run' /\ run_result' = "Ok") <=> pc >= Len(code)
             /\ in_run' <=> result' = "Ok"
             /\ (~in_run' /\ pc < Len(code)) => run_result' = result']_vars

\* run() returned Ok after a jump past the end, and later steps changed nothing
C8_Witness ==
    /\ RunReturned("Ok")
    /\ prior.err = "EndCode" /\ last.err = "EndCode"
    /\ pc > Len(code)
    /\ prior.before.pc = pc

\* ------------------------------------------------- arithmetic claims
\* the flag byte with exactly these flags set
FlagByte(carry, zero, parity, sign) ==
    (IF carry THEN 1 ELSE 0) + (IF zero THEN 2 ELSE 0)
    + (IF parity THEN 4 ELSE 0) + (IF sign THEN 8 ELSE 0)

A == registers["Accumulator"]

\* X:Y before the last step() and now
LastXY == last.before.registers["IndexX"] * 256 + last.before.registers["IndexY"]
XY == registers["IndexX"] * 256 + registers["IndexY"]

\* Sign and Parity are bit 7 and bit 0 of the accumulator, Carry is as it was
\* before the last step()
SignParityOfA ==
    /\ FlagIsSet(flags, "Sign") <=> A >= 128
    /\ FlagIsSet(flags, "Parity") <=> A % 2 = 1
    /\ FlagIsSet(flags, "Carry") <=> FlagIsSet(last.before.flags, "Carry")

C12_ZeroOfAccumulator ==
    (Executed("Increment") \/ Executed("Decrement"))
    => (FlagIsSet(flags, "Zero") <=> A = 0)

\* C13: Add sets A to (A + x) mod 256 with Carry iff A + x > 255, Subtract
\* sets A to (A - x) mod 256 with Carry iff A < x; in both, Zero iff the new A
\* is 0, Sign iff its bit 7, Parity iff its bit 0, and no flag keeps its
\* previous value
C13_AddSubtract ==
    /\ Executed("Add") =>
        /\ A = (LastA + LastOperand) % 256
        /\ flags = FlagByte(LastA + LastOperand > 255, A = 0, A % 2 = 1, A >= 128)
    /\ Executed("Subtract") =>
        /\ A = (LastA - LastOperand) % 256
        /\ flags = FlagByte(LastA < LastOperand, A = 0, A % 2 = 1, A >= 128)

\* Add 1 to 0xFF gave 0 with exactly Carry and Zero set, over other flags
C13_Witness ==
    /\ Executed("Add")
    /\ LastA = 255 /\ LastOperand = 1 /\ A = 0
    /\ FlagIsSet(last.before.flags, "Sign")
    /\ flags = FlagByte(TRUE, TRUE, FALSE, FALSE)

\* C14: AddXY writes (w + x) mod 65536 and SubtractXY (w - x) mod 65536 to
\* X (high byte) and Y (low byte), with Carry iff the 16-bit operation
\* overflowed or underflowed, Zero iff the result is 0, Parity iff its bit 0;
\* the Sign flag and the accumulator are untouched
C14_IndexArithmetic ==
    /\ Executed("AddXY") =>
        /\ XY = (LastXY + LastOperand) % 65536
        /\ FlagIsSet(flags, "Carry") <=> LastXY + LastOperand > 65535
    /\ Executed("SubtractXY") =>
        /\ XY = (LastXY - LastOperand) % 65536
        /\ FlagIsSet(flags, "Carry") <=> LastXY < LastOperand
    /\ (Executed("AddXY") \/ Executed("SubtractXY")) =>
        /\ registers["IndexX"] = XY \div 256 /\ registers["IndexY"] = XY % 256
        /\ FlagIsSet(flags, "Zero") <=> XY = 0
        /\ FlagIsSet(flags, "Parity") <=> XY % 2 = 1
        /\ FlagIsSet(flags, "Sign") <=> FlagIsSet(last.before.flags, "Sign")
        /\ A = LastA

\* AddXY 1 on 0xFFFF gave 0x0000 with Carry and Zero set
C14_Witness ==
    /\ Executed("AddXY")
    /\ LastXY = 65535 /\ LastOperand = 1
    /\ XY = 0
    /\ flags = FlagByte(TRUE, TRUE, FALSE, FALSE)

\* ------------------------------------------------- stack layout claims
\* the 16-bit word held in cells 0x0FF0 (high byte) and 0x0FF1 (low byte)
PointerCells(mem) == MemRead(mem, MMIO) * 256 + MemRead(mem, MMIO + 1)

\* the memory before the last step()
LastMemory == last.before.memory

\* the last Call wrote the return address high byte first below the stack
\* pointer it found
FrameWritten ==
    /\ MemRead(memory, (LastSP - 1) % 65536) = (last.before.pc \div 256) % 256
    /\ MemRead(memory, (LastSP - 2) % 65536) = last.before.pc % 256

\* the last Return took the low byte from mem[sp] and the high byte from
\* mem[sp + 1] (step() then added 1 to the word)
FrameRead ==
    pc = MemRead(LastMemory, (LastSP + 1) % 65536) * 256
         + MemRead(LastMemory, LastSP) + 1

\* C15 as claimed: Call(Local) at index p with stack pointer s writes the high
\* byte of p to mem[s-1], the low byte to mem[s-2] and leaves the stack
\* pointer at s-2; Return reads the low byte from mem[sp], the high byte from
\* mem[sp+1] and raises the stack pointer by 2
C15_CallFrameAsClaimed ==
    /\ Executed("CallLocal") => (FrameWritten /\ SP = (LastSP - 2) % 65536)
    /\ Executed("Return") => (FrameRead /\ SP = (LastSP + 2) % 65536)

\* C15 amended: the stack pointer moves by 2 in every Call and Return that
\* returns Ok; the two bytes are found in mem[s-1] and mem[s-2] after a Call
\* unless one of these cells is a stack-pointer cell, and a Return resumes
\* from the bytes mem[sp] and mem[sp+1] held before it unless sp is itself a
\* stack-pointer cell
C15_CallFrame ==
    /\ Executed("CallLocal") =>
        /\ SP = (LastSP - 2) % 65536
        /\ ReturnCells(LastSP) \cap StackPointerCells = {} => FrameWritten
    /\ Executed("Return") =>
        /\ SP = (LastSP + 2) % 65536
        /\ LastSP \notin StackPointerCells => FrameRead

\* a Call at a non-zero index wrote its frame, and the Return read it back
C15_Witness ==
    /\ Executed("Return")
    /\ prior.instr.op = "CallLocal" /\ prior.err = "Ok"
    /\ prior.before.pc > 0
    /\ FrameRead
    /\ pc = prior.before.pc + 1
    /\ MemRead(memory, SP - 2) = prior.before.pc

\* the byte the last Push found in its register
PushedByte == last.before.registers[last.instr.reg]

\* C16 as claimed: with the value v in cells 0x0FF0/0x0FF1, a Push writes its
\* byte at address v-1 and leaves the cells holding v-1, and a Pop returns
\* the byte at address v and leaves the cells holding v+1
C16_PointerCellsAsClaimed ==
    /\ Executed("Push") =>
        /\ MemRead(memory, (PointerCells(LastMemory) - 1) % 65536) = PushedByte
        /\ PointerCells(memory) = (PointerCells(LastMemory) - 1) % 65536
    /\ Executed("Pop") =>
        /\ registers[last.instr.reg] = MemRead(LastMemory, PointerCells(LastMemory))
        /\ PointerCells(memory) = (PointerCells(LastMemory) + 1) % 65536

\* C16 amended: the same for every Push and Pop that returns Ok, except that
\* a byte pushed at v-1 = 0x0FF0 or 0x0FF1 is overwritten by the new pointer,
\* and a Pop at v = 0x0FF1 returns the low byte of the new pointer
C16_PointerCells ==
    /\ Executed("Push") =>
        /\ (PointerCells(LastMemory) - 1) % 65536 \notin StackPointerCells
            => MemRead(memory, (PointerCells(LastMemory) - 1) % 65536) = PushedByte
        /\ PointerCells(memory) = (PointerCells(LastMemory) - 1) % 65536
    /\ Executed("Pop") =>
        /\ PointerCells(LastMemory) # STACK_POINTER_LSB
            => registers[last.instr.reg] = MemRead(LastMemory, PointerCells(LastMemory))
        /\ PointerCells(memory) = (PointerCells(LastMemory) + 1) % 65536
    /\ (steps > 1 /\ last.err = "Ok" /\ prior.err = "Ok"
        /\ prior.instr.op \in {"Push", "Pop"})
        => LastSP = PointerCells(last.before.memory)

\* a program stored 0x0FF3 into the cells and the next Push wrote at 0x0FF2
C16_Witness ==
    /\ Executed("Push")
    /\ PointerCells(LastMemory) = MMIO + 3
    /\ PushedByte = 242
    /\ MemRead(memory, MMIO + 2) = 242
    /\ PointerCells(memory) = MMIO + 2

\* C17: stack-pointer arithmetic wraps and never raises an error: a Push with
\* stack pointer 0x0000 writes at 0xFFFF and leaves the pointer at 0xFFFF, a
\* Pop with stack pointer 0xFFFF leaves it at 0x0000, and both return Ok
C17_StackPointerWraps ==
    /\ (steps > 0 /\ last.instr.op = "Push" /\ LastSP = 0) =>
        /\ last.err = "Ok" /\ ~panicked
        /\ SP = 65535
        /\ MemRead(memory, 65535) = PushedByte
    /\ (steps > 0 /\ last.instr.op = "Pop" /\ LastSP = 65535) =>
        /\ last.err = "Ok" /\ ~panicked
        /\ SP = 0

\* ------------------------------------------------- load and store claims
\* the register named by the instruction of the last step()
LastReg == last.instr.reg

\* the last step() fetched a Load or Store through X:Y plus an offset
IndexOffsetAccess ==
    /\ steps > 0
    /\ last.instr.op \in {"Load", "Store"}
    /\ last.instr.mode.kind = "IndexOffset"

\* the address (w + k) mod 65536 of that access
OffsetAddress == (LastXY + last.instr.mode.n) % 65536

\* the last step() stored its register at address a and changed nothing else
StoredAt(a) ==
    /\ memory = MemWrite(LastMemory, a, last.before.registers[LastReg])
    /\ registers = last.before.registers
    /\ flags = last.before.flags

\* the last step() loaded its register with byte v and changed nothing else
LoadedWith(v) ==
    /\ registers = [last.before.registers EXCEPT ![LastReg] = v]
    /\ memory = LastMemory
    /\ flags = last.before.flags

\* C18: a Load or Store with IndexOffset(k) at X:Y = w accesses exactly the
\* address (w + k) mod 65536, wrapping at the top of memory without an error,
\* and SubtractXY 1 followed by IndexOffset(1) addresses the original cell
C18_IndexOffset ==
    IndexOffsetAccess =>
        /\ last.err = "Ok" /\ ~panicked
        /\ last.instr.op = "Load" => LoadedWith(MemRead(LastMemory, OffsetAddress))
        /\ last.instr.op = "Store" => StoredAt(OffsetAddress)
        /\ (prior.instr = SubtractXY(Immediate(1)) /\ last.instr.mode.n = 1)
            => OffsetAddress = get_index(prior.before.registers)

\* the byte named by the addressing mode of the last step(), read before it
NamedByte ==
    LET m == last.instr.mode
    IN  CASE m.kind = "Register" -> last.before.registers[m.reg]
          [] m.kind = "Immediate" -> m.n
          [] m.kind = "Indirect" -> MemRead(LastMemory, m.n)
          [] m.kind = "Index" -> MemRead(LastMemory, LastXY)
          [] OTHER -> 0

\* C19: Load(R, mode) sets R to the byte named by mode (register, literal,
\* mem[p] or mem[X:Y]) and changes no flag, no memory cell and no other
\* register; Store(R, Indirect(p) or Index) sets exactly the cell p or X:Y to
\* the value of R and changes nothing else; the program lda 10; sta #5;
\* ldx a; ldx 0F0h; ldy 0; stx xy ends with A=10, mem[5]=10, X=0xF0, Y=0,
\* mem[0xF000]=0xF0
C19_LoadStore ==
    /\ (Executed("Load")
        /\ last.instr.mode.kind \in {"Register", "Immediate", "Indirect", "Index"})
        => LoadedWith(NamedByte)
    /\ (steps > 0 /\ last.instr.op = "Load"
        /\ last.instr.mode.kind \in {"Register", "Immediate", "Indirect", "Index"})
        => last.err = "Ok"
    /\ (steps > 0 /\ last.instr.op = "Store" /\ last.instr.mode.kind = "Indirect")
        => (last.err = "Ok" /\ StoredAt(last.instr.mode.n))
    /\ (steps > 0 /\ last.instr.op = "Store" /\ last.instr.mode.kind = "Index")
        => (last.err = "Ok" /\ StoredAt(LastXY))
    /\ (code = LoadStoreProgram /\ pc >= Len(code)) =>
        /\ pc = Len(code)
        /\ registers = [r \in Registers |->
                          CASE r = "Accumulator" -> 10
                            [] r = "IndexX" -> 240
                            [] OTHER -> 0]
        /\ memory = MemWrite(MemWrite(write_stack_pointer(EmptyMemory, INITIAL_STACK_POINTER), 5, 10),
                             61440, 240)
        /\ flags = 0

\* the load/store program has run to its end under run()
C19_Witness ==
    /\ code = LoadStoreProgram
    /\ RunReturned("Ok")
    /\ A = 10 /\ XY = 61440
    /\ MemRead(memory, 5) = 10 /\ MemRead(memory, 61440) = 240

\* ------------------------------------------------- program claims
\* the n of the square program of this behaviour (the operand of its ldb)
SquareInput == code[2].mode.n

\* the state the square loop ends in
SquareDone ==
    /\ pc = Len(code)
    /\ registers["UtilityC"] = (SquareInput * SquareInput) % 256
    /\ A = SquareInput
    /\ registers["UtilityB"] = SquareInput
    /\ FlagIsSet(flags, "Zero")
    /\ SP = INITIAL_STACK_POINTER

\* C20: the loop program of test_square terminates without error for every n
\* with C = n*n mod 256, A = n, B = n, the Zero flag set and the stack pointer
\* back at 0x0F00; for n = 5 it ends with C = 25, A = 5, B = 5
C20_Square ==
    /\ [](~panicked /\ result \in {"None", "Ok", "EndCode"}
          /\ run_result \in {"None", "Ok"})
    /\ [](pc >= Len(code) => SquareDone)
    /\ []((pc >= Len(code) /\ SquareInput = 5)
            => (registers["UtilityC"] = 25 /\ A = 5 /\ registers["UtilityB"] = 5))
    /\ [](steps >= 9 * SquareInput + 6 => pc >= Len(code))
    /\ (in_run /\ steps = 0) ~> (RunReturned("Ok") /\ SquareDone)

\* run() has returned Ok from the loop for n = 17, whose square wraps to 33
C20_Witness ==
    /\ RunReturned("Ok")
    /\ SquareInput = 17
    /\ registers["UtilityC"] = 33
    /\ A = 17
    /\ steps > 159

\* the instruction before the one step() fetches next is a call, so the
\* machine is at the instruction following a call
AfterCall == pc \in DOMAIN code /\ code[pc].op = "CallLocal"

\* the operand of the ldb before the call the machine has just returned from
CallInput == code[pc - 1].mode.n

\* C21: in the subroutine program of test_subroutine_square every run
\* terminates without error, B is 169, 144 and 9 at the instruction following
\* each call, A and C are after each call what they were before it, the
\* instruction placed directly after ret is never executed, and the stack
\* pointer is 0x0F00 at termination
C21_SubroutineSquare ==
    /\ [](~panicked /\ result \in {"None", "Ok", "EndCode"}
          /\ run_result \in {"None", "Ok"})
    /\ []((AfterCall /\ Executed("Return"))
            => /\ registers["UtilityB"] = CallInput * CallInput
               /\ CallInput = 13 => registers["UtilityB"] = 169
               /\ CallInput = 12 => registers["UtilityB"] = 144
               /\ CallInput = 3 => registers["UtilityB"] = 9
               /\ A = last.frame.registers["Accumulator"]
               /\ registers["UtilityC"] = last.frame.registers["UtilityC"])
    /\ [](Fetched # AssertInstr(Immediate(0), 1)
          /\ last.instr # AssertInstr(Immediate(0), 1))
    /\ [](pc >= Len(code) => SP = INITIAL_STACK_POINTER)
    /\ RunLoopEnabled ~> (RunReturned("Ok") /\ pc = Len(code))

\* run() has returned Ok after the third call returned with B = 9
C21_Witness ==
    /\ RunReturned("Ok")
    /\ pc = Len(code)
    /\ registers["UtilityB"] = 9
    /\ last.err = "EndCode"
    /\ prior.instr = AssertInstr(Register("UtilityB"), 9)
    /\ SP = INITIAL_STACK_POINTER

\* ------------------------------------------------- label resolution claims
\* process_labels has returned Ok((resolved, symbols))
Resolved == output.done /\ output.value.ok

\* the labeled jumps and calls of the input
References == {i \in 1..Len(input) : input[i].op \in {"_LabeledJump", "_LabeledCall"}}

\* the indices (from 0) at which the input defines the label
DefinedAt(name) == {t \in 0..(Len(input) - 1) : input[t + 1] = Label(name)}

\* what the claim puts at the position of the input instruction i
ResolvedAs(i, instruction) ==
    CASE input[i].op = "_Label" -> instruction = Nop
      [] input[i].op = "_LabeledJump" ->
            \E t \in DefinedAt(input[i].name) : instruction = Jump(input[i].jt, t)
      [] input[i].op = "_LabeledCall" ->
            \E t \in DefinedAt(input[i].name) : instruction = CallLocal(t)
      [] OTHER -> instruction = input[i]

\* C22: when every referenced label is defined, process_labels returns a
\* list of the same length whose position i holds Nop for a label, the jump
\* or local call to the pc of the label for a labeled jump or call, and the
\* input instruction otherwise; the result has no _Label, _LabeledJump or
\* _LabeledCall, and every jump or call target is an in-range index that holds
\* the Nop that replaced the label
C22_Resolution ==
    /\ (output.done /\ \A i \in References : DefinedAt(input[i].name) # {})
         => output.value.ok
    /\ Resolved =>
        LET resolved == output.value.code
        IN  /\ Len(resolved) = Len(input)
            /\ \A i \in 1..Len(input) : ResolvedAs(i, resolved[i])
            /\ \A i \in 1..Len(resolved) :
                    /\ resolved[i].op \notin {"_Label", "_LabeledJump", "_LabeledCall"}
                    /\ resolved[i].op \in {"Jump", "CallLocal"} =>
                          /\ resolved[i].dest + 1 \in 1..Len(resolved)
                          /\ resolved[resolved[i].dest + 1] = Nop
                          /\ input[resolved[i].dest + 1] = Label(input[i].name)

\* a list with a label, a jump to it and a call of it has been resolved
C22_Witness ==
    /\ Resolved
    /\ input = << LabeledJump(Unconditional, "label"), Label("label"),
                  LabeledCall("label") >>
    /\ output.value.code = << Jump(Unconditional, 1), Nop, CallLocal(1) >>

\* the indices (from 0) of the _Label instructions of the input
LabelIndices == {t \in 0..(Len(input) - 1) : input[t + 1].op = "_Label"}

\* the targets of the resolved jumps and calls name the label referred to
TargetsNamed ==
    \A i \in References :
        LET t == output.value.code[i].dest
        IN  t \in DOMAIN output.value.symbols
            /\ output.value.symbols[t] = input[i].name

\* C23 as claimed: the symbol table has exactly one entry pc -> name for
\* every Label(name) at index pc of the input, also when a name is defined
\* more than once
C23_EntryPerLabelAsClaimed ==
    Resolved =>
        /\ DOMAIN output.value.symbols = LabelIndices
        /\ \A t \in LabelIndices : output.value.symbols[t] = input[t + 1].name
        /\ TargetsNamed

\* C23: on successful resolution the symbol table has exactly one entry for
\* every label name the input defines, pc -> name for the last index pc
\* at which Label(name) stands; it has an entry for every Label of the input
\* when no name is defined twice, and every resolved jump or call target has
\* an entry naming the label referred to
C23_EntryPerName ==
    Resolved =>
        LET symbols == output.value.symbols
            last_of(t) == \A u \in DefinedAt(input[t + 1].name) : u <= t
        IN  /\ DOMAIN symbols = {t \in LabelIndices : last_of(t)}
            /\ \A t \in DOMAIN symbols : symbols[t] = input[t + 1].name
            /\ (\A t \in LabelIndices : last_of(t)) => DOMAIN symbols = LabelIndices
            /\ TargetsNamed

\* a list that defines "label" twice and jumps to it has been resolved
C23_Witness ==
    /\ Resolved
    /\ input = << Label("label"), LabeledJump(Unconditional, "label"),
                  Label("label") >>
    /\ output.value.code = << Nop, Jump(Unconditional, 2), Nop >>
    /\ DOMAIN output.value.symbols = {2}
    /\ output.value.symbols[2] = "label"

\* the labeled jumps and calls of the input whose label no _Label defines
Undefined == {i \in References : DefinedAt(input[i].name) = {}}

\* C24: when a referenced label is undefined process_labels fails, and its
\* error list has, in input order, exactly one entry (name, line) for every
\* labeled jump or call whose name no _Label defines, and none for a jump or
\* call whose label is defined
C24_MissingLabels ==
    (output.done /\ Undefined # {}) =>
        LET missing == output.value.missing
        IN  /\ ~output.value.ok
            /\ Len(missing) = Cardinality(Undefined)
            /\ \A k \in 1..Len(missing) :
                    /\ missing[k][2] + 1 \in Undefined
                    /\ missing[k][1] = input[missing[k][2] + 1].name
            /\ \A k \in 1..(Len(missing) - 1) : missing[k][2] < missing[k + 1][2]

\* a jump to a missing label and a jump to a defined one, as in
\* test_missing_labels
C24_Witness ==
    /\ output.done
    /\ ~output.value.ok
    /\ input = << LabeledJump(Unconditional, "missing"),
                  LabeledJump(Flag("Zero", TRUE), "label2"), Label("label2") >>
    /\ output.value.missing = << << "missing", 0 >> >>

\* ------------------------------------------------- operand claims
\* the operand without its leading #
LiteralText == IF input[1] = "#" THEN SubSeq(input, 2, Len(input)) ELSE input

\* the base its suffix gives the literal
LiteralBase ==
    LET suffix == char_to_ascii_uppercase(LiteralText[Len(LiteralText)])
    IN  IF suffix = "H" THEN 16 ELSE IF suffix = "B" THEN 2 ELSE 10

\* the digits of the literal
LiteralDigitsOf ==
    IF LiteralBase = 10 THEN LiteralText
    ELSE SubSeq(LiteralText, 1, Len(LiteralText) - 1)

ValidDigits ==
    /\ LiteralDigitsOf # << >>
    /\ \A i \in 1..Len(LiteralDigitsOf) : to_digit(LiteralDigitsOf[i], LiteralBase) >= 0

\* the value of the digits d in the base, or 65536 for a greater value
RECURSIVE DigitsValue(_, _)
DigitsValue(d, base) ==
    IF d = << >> THEN 0
    ELSE LET high == DigitsValue(SubSeq(d, 1, Len(d) - 1), base)
             v == high * base + to_digit(d[Len(d)], base)
         IN  IF high > 65535 \/ v > 65535 THEN 65536 ELSE v

LiteralValue == DigitsValue(LiteralDigitsOf, LiteralBase)

\* the operand is a literal: neither a register name nor XY
IsLiteral == input \notin RegisterOperands /\ LiteralText # << >>

InvalidNumericLiteral ==
    ~output.value.ok /\ output.value.error.error_type = "InvalidNumericLiteral"

\* C28: a numeric literal in decimal, binary (suffix b) or hexadecimal
\* (suffix h), in any letter case, parses to Immediate(v) when its value v is
\* at most 255 and to an InvalidNumericLiteral error when v > 255 or a digit
\* is not valid in the base; with a leading # it parses to Indirect(v) when
\* v <= 65535 and to InvalidNumericLiteral above that; also for hexadecimal
\* literals whose first digit is A, B or C
C28_Literals ==
    (output.done /\ IsLiteral) =>
        IF input[1] = "#"
        THEN IF ValidDigits /\ LiteralValue <= 65535
             THEN output.value = Ok(Indirect(LiteralValue))
             ELSE InvalidNumericLiteral
        ELSE IF ValidDigits /\ LiteralValue <= 255
             THEN output.value = Ok(Immediate(LiteralValue))
             ELSE InvalidNumericLiteral

\* the literal does not begin with a letter that names a register
NoRegisterFirst == ~InClass(input[1], "register")

\* what C28 says holds of the literals that do not begin with A, B or C
C28_OtherLiterals == NoRegisterFirst => C28_Literals

\* a literal that begins with A, B or C parses to the register of that name
C28_RegisterFirst ==
    (output.done /\ IsLiteral /\ ~NoRegisterFirst)
        => output.value = Ok(Register(register_try_from(input[1]).value))

\* ------------------------------------------------- compile claims
\* compile has returned Err(errors)
Failed == output.done /\ ~output.value.ok

Errors == output.value.errors

ErrorsOfType(error_type) == SelectSeq(Errors, LAMBDA e : e.error_type = error_type)

\* what to_instruction makes of line number l (from 1) of the text
InstructionOf(l) == to_instruction(trim(input[l]), l - 1)

\* line number l of the text is the line the error e is about
Causes(l, e) ==
    /\ l \in 1..Len(input)
    /\ trim(input[l]) # << >>
    /\ LET r == InstructionOf(l)
       IN  IF e.error_type = "InvalidLabel"
           THEN /\ r.ok
                /\ r.value.op \in {"_LabeledJump", "_LabeledCall"}
                /\ r.value.name = e.info
           ELSE /\ ~r.ok
                /\ r.error.error_type = e.error_type
                /\ r.error.info = e.info

\* C25: the InvalidLabel error compile returns for a jump or call to an
\* undefined label has the label name as info and the source line number of
\* the jump or call as location (counted from 1 or, as the locations of
\* unparsable lines are, from 0), also when blank or comment lines precede it
C25_LabelLocation ==
    Failed =>
        LET errors == ErrorsOfType("InvalidLabel")
        IN  \/ \A k \in 1..Len(errors) : Causes(errors[k].location, errors[k])
            \/ \A k \in 1..Len(errors) : Causes(errors[k].location + 1, errors[k])

\* the lines of the text that to_instruction rejects
Unparsable == {l \in 1..Len(input) : trim(input[l]) # << >> /\ ~InstructionOf(l).ok}

\* the label names the lines of the text define
DefinedNames ==
    {InstructionOf(l).value.name :
        l \in {m \in 1..Len(input) :
                 /\ trim(input[m]) # << >>
                 /\ LET r == InstructionOf(m) IN r.ok /\ r.value.op = "_Label"}}

\* the lines of the text that jump to or call a label no line defines
Dangling ==
    LET names == DefinedNames
    IN  {l \in 1..Len(input) :
            /\ trim(input[l]) # << >>
            /\ LET r == InstructionOf(l)
               IN  /\ r.ok
                   /\ r.value.op \in {"_LabeledJump", "_LabeledCall"}
                   /\ r.value.name \notin names}

\* C26 as claimed: the error list has one error for every offending line of
\* the whole compile, so a text with an unparsable line and a jump to an
\* undefined label reports both the InvalidInstruction and the InvalidLabel
C26_AllErrorsAsClaimed ==
    output.done =>
        LET unparsable == Unparsable
            dangling == Dangling
        IN  /\ (unparsable # {} \/ dangling # {}) => ~output.value.ok
            /\ Failed => Len(Errors) = Cardinality(unparsable) + Cardinality(dangling)

\* C26: compile does not stop at the first error of a pass: when a line is
\* unparsable it returns one error for every unparsable line and none for a
\* jump or call to an undefined label; when every line parses it returns one
\* InvalidLabel error for every jump or call to an undefined label
C26_ErrorsOfOnePass ==
    output.done =>
        LET unparsable == Unparsable
            dangling == Dangling
        IN  /\ output.value.ok <=> (unparsable = {} /\ dangling = {})
            /\ unparsable # {} =>
                  /\ Len(Errors) = Cardinality(unparsable)
                  /\ ErrorsOfType("InvalidLabel") = << >>
            /\ (unparsable = {} /\ dangling # {}) =>
                  /\ Len(Errors) = Cardinality(dangling)
                  /\ ErrorsOfType("InvalidLabel") = Errors

\* a text with an unparsable line and a jump to an undefined label has been
\* compiled, and the one error returned is the InvalidInstruction
C26_Witness ==
    /\ Failed
    /\ input = << << "b", "o", "g", "u", "s" >>, << "j", "m", "p", " ", "f", "a", "r" >> >>
    /\ Errors = << ParseError("InvalidInstruction", 0, << "b", "o", "g", "u", "s" >>) >>

\* C27: every error compile returns carries as location the 1-based number
\* of the source line that caused it, also an error raised while an operand
\* is parsed
C27_ErrorLocation ==
    Failed => \A k \in 1..Len(Errors) : Causes(Errors[k].location, Errors[k])

\* the same with the lines numbered from 0, for the errors of the lines
\* to_instruction rejects
C27_ErrorLocationFromZero ==
    (Failed /\ Unparsable # {})
        => \A k \in 1..Len(Errors) : Causes(Errors[k].location + 1, Errors[k])

\* an unparsable line is reported with its number counted from 0, and an
\* operand that is rejected with the location 0 wherever its line is
C27_LocationReported ==
    Failed =>
        /\ \A k \in 1..Len(ErrorsOfType("InvalidInstruction")) :
              Causes(ErrorsOfType("InvalidInstruction")[k].location + 1,
                     ErrorsOfType("InvalidInstruction")[k])
        /\ \A k \in 1..Len(ErrorsOfType("InvalidNumericLiteral")) :
              ErrorsOfType("InvalidNumericLiteral")[k].location = 0

\* the line is a load, add, subtract or compare of the operand XY
TakesIndex(line) ==
    LET u == to_ascii_uppercase(line)
    IN  /\ Len(u) = 6
        /\ SubSeq(u, 4, 6) = << " ", "X", "Y" >>
        /\ \/ SubSeq(u, 1, 3) \in {<< "A", "D", "D" >>, << "S", "U", "B" >>,
                                      << "C", "M", "P" >>}
           \/ SubSeq(u, 1, 2) = << "L", "D" >> /\ InClass(u[3], "register")

\* C29: the operand XY denotes Index in every value position: a load, add,
\* subtract or compare of xy compiles to an instruction whose addressing mode
\* is Index, as a store to xy compiles to Store(R, Index)
C29_IndexOperand ==
    (output.done /\ output.value.ok) =>
        LET preprocessed == preprocess(input, 0)
        IN  \A k \in 1..Len(preprocessed) :
                /\ TakesIndex(preprocessed[k][2]) => output.value.code[k].mode = Index
                /\ preprocessed[k][2] = << "s", "t", "a", " ", "x", "y" >>
                      => output.value.code[k] = Store("Accumulator", Index)

\* a load, add, subtract or compare of xy compiles to an instruction whose
\* operand is the register X, and the load of A0h to a load of the register A
C29_IndexCompiled ==
    (output.done /\ output.value.ok) =>
        LET preprocessed == preprocess(input, 0)
        IN  \A k \in 1..Len(preprocessed) :
                /\ TakesIndex(preprocessed[k][2])
                      => output.value.code[k].mode = Register("IndexX")
                /\ preprocessed[k][2] = << "l", "d", "c", " ", "A", "0", "h" >>
                      => output.value.code[k] = Load("UtilityC", Register("Accumulator"))

\* ------------------------------------------------- library claims
\* the call made in this step
ThisCall == input'[Len(input')]

\* a library call is made in this step
Called(fn) == input' # input /\ ThisCall.fn = fn

\* the addresses of the range of the call
RangeOf(call) == {a \in call.start..(call.start + call.size - 1) : TRUE}

\* the range of the call lies within the memory
WithinMemory(call) == call.start + call.size <= 65536

\* the addresses at which the memory before or after the step is not zero,
\* and those of the range
Touched(call) == DOMAIN memory \cup DOMAIN memory' \cup RangeOf(call)

\* what the claim says of a call whose range lies within the memory
RangeContract(call) ==
    /\ ~panicked'
    /\ call.fn = "memclear" =>
          \A a \in Touched(call) :
              MemRead(memory', a) = IF a \in RangeOf(call) THEN 0 ELSE MemRead(memory, a)
    /\ (call.fn = "memset" /\ call.size <= Len(call.source)) =>
          \A a \in Touched(call) :
              MemRead(memory', a) = IF a \in RangeOf(call)
                                    THEN call.source[a - call.start + 1]
                                    ELSE MemRead(memory, a)
    /\ call.fn = "memgetn" =>
          /\ memory' = memory
          /\ output' = Returned([i \in 1..call.size |-> MemRead(memory, call.start + i - 1)])

LibraryCalled == input' # input /\ (ThisCall.fn = "memset" => ThisCall.size <= Len(ThisCall.source))

\* C30: for every start and size whose range lies within the 65536 bytes of
\* the memory, also a range that ends at the last byte, memclear sets every
\* byte of the range to 0 and changes no other, memset(buf, dest, size) makes
\* mem[dest+i] = buf[i] for all i < size and changes nothing else, and
\* memgetn(start, size) returns exactly those size bytes
C30_LibraryRanges ==
    [][(LibraryCalled /\ WithinMemory(ThisCall)) => RangeContract(ThisCall)]_vars

\* the same for the ranges that end before the last byte, and for memset
C30_BelowLastByte ==
    [][(LibraryCalled /\ (ThisCall.start + ThisCall.size <= 65535 \/ ThisCall.fn = "memset")
          /\ WithinMemory(ThisCall))
        => RangeContract(ThisCall)]_vars

\* memclear and memgetn of a range that ends at the last byte: with overflow
\* checks both panic, without them memclear changes nothing and memgetn
\* panics, except for an empty range
C30_AtLastByte ==
    [][(LibraryCalled /\ ThisCall.fn \in {"memclear", "memgetn"}
          /\ ThisCall.start + ThisCall.size = 65536)
        => IF overflow_checks \/ ThisCall.fn = "memgetn"
           THEN panicked'
           ELSE ~panicked' /\ memory' = memory]_vars

\* memclear(0, 256) has cleared the identity pattern and memgetn(0, 256) has
\* returned 256 zeros
C30_Cleared ==
    /\ input = << [fn |-> "memclear", start |-> 0, size |-> 256, source |-> << >>],
                  [fn |-> "memgetn", start |-> 0, size |-> 256, source |-> << >>] >>
    /\ output = Returned([i \in 1..256 |-> 0])

\* memset([3, 14, 1, 5], 0, 4) on the identity pattern, read back by memgetn
C30_Set ==
    /\ input = << [fn |-> "memset", start |-> 0, size |-> 4, source |-> << 3, 14, 1, 5 >>],
                  [fn |-> "memgetn", start |-> 0, size |-> 4, source |-> << >>] >>
    /\ output = Returned(<< 3, 14, 1, 5 >>)
    /\ MemRead(memory, 4) = 4

\* ------------------------------------------------- interface claims
\* the k-th byte the program pushes
Pushed(k) == code[Len(Fill) + 2 * k - 1].mode.n

\* the 16-bit argument whose high byte is pushed k-th and whose low byte next
Argument(k) == 256 * Pushed(k) + Pushed(k + 1)

\* the host calls i_memclear, or i_memcpy, in this step
ClearCalled == input' = << "i_memclear" >> /\ input = << >>
CopyCalled == input' = << "i_memcpy" >> /\ input = << >>

\* the cells that hold the pushed bytes, and the MMIO cells
StackAndMMIO(pushes) ==
    ((INITIAL_STACK_POINTER - pushes)..(INITIAL_STACK_POINTER - 1)) \cup (MMIO..(MMIO + 15))

\* the cells of the range of size bytes from start
Cells(start, size) == {a \in start..(start + size - 1) : TRUE}

\* the memory after the step differs from the one before it only in the
\* cells of the stack pointer
OnlyStackPointerMoved(except) ==
    \A a \in (DOMAIN memory \cup DOMAIN memory') \ (except \cup StackPointerCells) :
        MemRead(memory', a) = MemRead(memory, a)

\* what the claim says of i_memclear called after the four pushes
ClearContract ==
    LET start == Argument(1)
        size == Argument(3)
    IN  /\ ~panicked'
        /\ \A a \in Cells(start, size) : MemRead(memory', a) = 0
        /\ OnlyStackPointerMoved(Cells(start, size))
        /\ get_stack_pointer([memory |-> memory']) = INITIAL_STACK_POINTER

\* what the claim says of i_memcpy called after the six pushes, for ranges
\* that do not overlap: the bytes are consumed as source, dest, size
CopyContract ==
    LET source == Argument(1)
        dest == Argument(3)
        size == Argument(5)
    IN  /\ get_stack_pointer([memory |-> memory']) = INITIAL_STACK_POINTER
        /\ get_stack_pointer([memory |-> memory]) = INITIAL_STACK_POINTER - 6
        /\ (Cells(source, size) \cap Cells(dest, size) = {}) =>
              /\ \A i \in 0..(size - 1) :
                    MemRead(memory', dest + i) = MemRead(memory, source + i)
              /\ OnlyStackPointerMoved(Cells(dest, size))

\* the range of i_memclear lies within the memory and covers neither the
\* stack nor the MMIO cells
ClearCovered ==
    /\ Argument(1) + Argument(3) <= 65536
    /\ Cells(Argument(1), Argument(3)) \cap StackAndMMIO(4) = {}

\* the ranges of i_memcpy lie within the memory and the destination covers
\* neither the stack nor the MMIO cells
CopyCovered ==
    /\ Argument(1) + Argument(5) <= 65536
    /\ Argument(3) + Argument(5) <= 65536
    /\ Cells(Argument(3), Argument(5)) \cap StackAndMMIO(6) = {}

\* C31: after a program has pushed start_hi, start_lo, size_hi, size_lo,
\* i_memclear zeroes exactly the bytes [start, start+size), for a range that
\* covers neither the stack nor the MMIO cells, and leaves the stack pointer
\* at its value before the four pushes; i_memcpy consumes exactly six bytes
\* in the order size, dest, source, low byte first
C31_StackArguments ==
    [][/\ (ClearCalled /\ ClearCovered) => ClearContract
       /\ (CopyCalled /\ CopyCovered) => (~panicked' /\ CopyContract)]_vars

\* the same for the ranges of i_memclear that end before the last byte
C31_BelowLastByte ==
    [][/\ (ClearCalled /\ ClearCovered /\ Argument(1) + Argument(3) <= 65535)
            => ClearContract
       /\ (CopyCalled /\ CopyCovered) => (~panicked' /\ CopyContract)]_vars

\* i_memclear of a range that ends at the last byte panics with overflow
\* checks and clears nothing without them
C31_AtLastByte ==
    [][(ClearCalled /\ Argument(3) > 0 /\ Argument(1) + Argument(3) = 65536)
        => IF overflow_checks THEN panicked'
           ELSE /\ ~panicked'
                /\ OnlyStackPointerMoved({})
                /\ MemRead(memory', 65535) = 7]_vars

\* i_memclear(0, 2) has cleared the two filled cells 0 and 1 and left cell 5
C31_Cleared ==
    /\ input = << "i_memclear" >> /\ output.done
    /\ Argument(1) = 0 /\ Argument(3) = 2
    /\ MemRead(memory, 0) = 0 /\ MemRead(memory, 1) = 0 /\ MemRead(memory, 5) = 7
    /\ SP = INITIAL_STACK_POINTER

\* i_memcpy(0, 0x10FD, 3) has copied the cells 0, 1, 2
C31_Copied ==
    /\ input = << "i_memcpy" >> /\ output.done
    /\ Argument(1) = 0 /\ Argument(3) = 16 * 256 + 253 /\ Argument(5) = 3
    /\ MemRead(memory, 4349) = 7 /\ MemRead(memory, 4350) = 7 /\ MemRead(memory, 4351) = 0
    /\ SP = INITIAL_STACK_POINTER

\* ------------------------------------------------- word claims
\* C32: for every 16-bit word w, break_u16(w) is the pair of the high byte
\* w >> 8 and the low byte, and build_u16 of that pair is w; for every pair
\* of bytes (m, l), break_u16(build_u16(m, l)) = (m, l)
C32_WordRoundTrip ==
    /\ (input.kind = "word" /\ Len(Results) >= 1) =>
          Results[1] = << input.word \div 256, input.word % 256 >>
    /\ (input.kind = "word" /\ Len(Results) = 2) => Results[2] = input.word
    /\ (input.kind = "pair" /\ Len(Results) >= 1) =>
          Results[1] = 256 * input.msb + input.lsb
    /\ (input.kind = "pair" /\ Len(Results) = 2) =>
          Results[2] = << input.msb, input.lsb >>

\* the word 0xABCD has been broken into 0xAB and 0xCD and built again
C32_Witness ==
    /\ input.kind = "word" /\ input.word = 43981
    /\ Results = << << 171, 205 >>, 43981 >>

\* ------------------------------------------------- color claims
\* C33: for every 15-bit word w, rgb15_to_color(w) has r = 8 * (bits 14..10),
\* g = 8 * (bits 9..5), b = 8 * (bits 4..0), each within 0..248 and computed
\* without 8-bit overflow, and color_to_rgb15 of that color is w
C33_ColorRoundTrip ==
    input < 32768 =>
        /\ ~panicked
        /\ Len(Results) >= 1 =>
              /\ Results[1] = Color(8 * (input \div 1024), 8 * ((input \div 32) % 32),
                                    8 * (input % 32))
              /\ \A c \in {Results[1].r, Results[1].g, Results[1].b} : c \in 0..248
        /\ Len(Results) = 2 => Results[2] = input

\* the word 0x7C1F has become the color (248, 0, 248) and the word again
C33_Witness ==
    /\ input = 31775
    /\ Results = << Color(248, 0, 248), 31775 >>

\* ------------------------------------------------- sprite claims
\* the size code of a sprite size
SizeCode(sprite_size) == CHOOSE c \in 0..3 : SpriteSize_pitch(sprite_size) = 8 * Pow2(c)

\* C34: for every byte b, the properties decoded from b are tilemap_index =
\* bit 7, size = the size of 8, 16, 32 or 64 pixels for the code in bits 6..5,
\* palette_index = bits 4..2 and priority = bits 1..0, and encoding the four
\* fields by the same layout gives b; the five bytes of a sprite record are
\* decoded as properties, x, y, gfx_start, info
C34_SpriteDecode ==
    output.done =>
        LET b == input[1]
            p == output.value.properties
        IN  /\ p.tilemap_index = b \div 128
            /\ p.size = << "X8", "X16", "X32", "X64" >>[((b \div 32) % 4) + 1]
            /\ SpriteSize_pitch(p.size) = << 8, 16, 32, 64 >>[((b \div 32) % 4) + 1]
            /\ p.palette_index = (b \div 4) % 8
            /\ p.priority = b % 4
            /\ 128 * p.tilemap_index + 32 * SizeCode(p.size) + 4 * p.palette_index
                  + p.priority = b
            /\ output.value.location = << input[2], input[3] >>
            /\ output.value.gfx_start = input[4]
            /\ output.value.info = input[5]

\* the record of test_Sprite_deserialize and its sprite
C34_Witness ==
    /\ input = << 69, 128, 32, 0, 0 >>
    /\ output = Returned([properties |-> [tilemap_index |-> 0, size |-> "X32",
                                          palette_index |-> 1, priority |-> 1],
                          location |-> << 128, 32 >>, gfx_start |-> 0, info |-> 0])

\* ------------------------------------------------- VRAM model claims
\* the call of enable_sprite or disable_sprite made in this step, of a
\* sprite within the bounds
SpriteCalled(fn) ==
    /\ input' # input
    /\ ThisCall.fn = fn
    /\ ThisCall.index < SPRITE_COUNT

\* the info byte of the sprite of this call before and after the step
InfoBefore == output.value.sprites[ThisCall.index + 1].info
InfoAfter == output'.value.sprites[ThisCall.index + 1].info

\* the step changes nothing of the model but the info byte of the sprite of
\* this call
OnlyInfoChanged ==
    /\ output'.value.palettes = output.value.palettes
    /\ output'.value.tilemaps = output.value.tilemaps
    /\ output'.value.backgrounds = output.value.backgrounds
    /\ \A k \in 1..SPRITE_COUNT :
          IF k = ThisCall.index + 1
          THEN [output'.value.sprites[k] EXCEPT !.info = 0]
                  = [output.value.sprites[k] EXCEPT !.info = 0]
          ELSE output'.value.sprites[k] = output.value.sprites[k]

\* the call before this one was the same call
Repeated == Len(input) > 0 /\ input[Len(input)] = ThisCall

\* C35: for every sprite index and every info byte, enable_sprite sets bit 0
\* of the info byte of the sprite and disable_sprite clears it; the bits 1..7
\* of the byte, the other fields of the sprite, the other sprites and the
\* palettes, tilemaps and backgrounds are unchanged, and a repeated call
\* changes nothing
C35_SpriteEnable ==
    [][/\ SpriteCalled("enable_sprite") =>
             /\ ~panicked' /\ OnlyInfoChanged
             /\ InfoAfter % 2 = 1 /\ InfoAfter \div 2 = InfoBefore \div 2
       /\ SpriteCalled("disable_sprite") =>
             /\ ~panicked' /\ OnlyInfoChanged
             /\ InfoAfter % 2 = 0 /\ InfoAfter \div 2 = InfoBefore \div 2
       /\ ((SpriteCalled("enable_sprite") \/ SpriteCalled("disable_sprite")) /\ Repeated)
             => output'.value = output.value]_vars

\* sprite 5, whose info byte was 15, has been enabled and then disabled
C35_Witness ==
    /\ input = << [fn |-> "enable_sprite", index |-> 5],
                  [fn |-> "disable_sprite", index |-> 5] >>
    /\ output.done
    /\ output.value.sprites[6].info = 14
    /\ output.value.sprites[5].info = 12

\* sprite 126, whose info byte was 0, has been enabled twice
C35_EnabledTwice ==
    /\ input = << [fn |-> "enable_sprite", index |-> 126],
                  [fn |-> "enable_sprite", index |-> 126] >>
    /\ output.done
    /\ output.value.sprites[127].info = 1

\* ------------------------------------------------- VRAM region claims
\* the start of a region and the bytes it takes
RegionStart(region) == dimensions(region)[1]
RegionBytes(region) == dimensions(region)[2] * MemberCount(region)

\* the call of get_nth made in this step, for a member of the region
MemberCalled ==
    /\ input = << >> /\ input' # << >>
    /\ ThisCall.index < MemberCount(ThisCall.region)

\* the first byte of the member of this call
MemberStart == RegionStart(ThisCall.region) + dimensions(ThisCall.region)[2] * ThisCall.index

\* one of the color words of the member has its top bit set
TopBitColor ==
    \E i \in 0..(PALETTE_LENGTH - 1) : MemRead(memory, MemberStart + 2 * i) >= 128

\* C36: the regions start at 0x6000 (8 palettes of 32 bytes), 0x6100 (2
\* tilemaps of 16384), 0xE100 (4 backgrounds of 896) and 0xEF00 (128 sprites
\* of 5); each starts where the one before ends, and the last ends at or
\* below 0x10000.  For every region and every index of a member, get_nth
\* reads exactly the bytes [start + size*index, start + size*(index+1)), and
\* no 16-bit computation overflows
C36_Regions ==
    /\ << RegionStart("Palette"), PALETTE_COUNT, PALETTE_SIZE >> = << 24576, 8, 32 >>
    /\ << RegionStart("Tilemap"), TILEMAP_COUNT, TILEMAP_SIZE >> = << 24832, 2, 16384 >>
    /\ << RegionStart("Background"), BG_COUNT, BG_SIZE >> = << 57600, 4, 896 >>
    /\ << RegionStart("Sprite"), SPRITE_COUNT, SPRITE_SIZE >> = << 61184, 128, 5 >>
    /\ RegionStart("Palette") + RegionBytes("Palette") = RegionStart("Tilemap")
    /\ RegionStart("Tilemap") + RegionBytes("Tilemap") = RegionStart("Background")
    /\ RegionStart("Background") + RegionBytes("Background") = RegionStart("Sprite")
    /\ RegionStart("Sprite") + RegionBytes("Sprite") <= 65536
    /\ [][MemberCalled =>
            /\ MemberStart + dimensions(ThisCall.region)[2] <= 65535
            /\ panicked' => (ThisCall.region = "Palette" /\ overflow_checks /\ TopBitColor)
            /\ ~panicked' =>
                  output'.value.data =
                      [i \in 1..dimensions(ThisCall.region)[2] |->
                          MemRead(memory, MemberStart + i - 1)]]_vars

\* the last sprite has been read from its five bytes at 0xF17B
C36_Witness ==
    /\ input = << [region |-> "Sprite", index |-> 127] >>
    /\ output.done
    /\ output.value.data = [i \in 1..5 |-> 1 + (((61819 + i - 1) * 7) % 127)]
    /\ output.value.value.gfx_start = output.value.data[4]

\* the second tilemap has been read: 16384 bytes from 0xA100
C36_TilemapRead ==
    /\ input = << [region |-> "Tilemap", index |-> 1] >>
    /\ output.done
    /\ Len(output.value.data) = 16384
    /\ output.value.data[1] = 1 + ((41216 * 7) % 255)
    /\ Len(output.value.value.tiles) = 256

\* ------------------------------------------------- render claims
\* this step renders the first sprite of the model
SpriteRendered == input = << >> /\ input' = << 0 >>

RenderedSprite == output.value.vrammodel.sprites[1]

\* tile_pitch of the rendered sprite, and the number of its tiles
TilePitch == SpriteSize_pitch(RenderedSprite.properties.size) \div 8
TileCount == TilePitch * TilePitch

\* one of the tiles of the rendered sprite has a pixel that is no palette index
BadPixel ==
    /\ RenderedSprite.properties.tilemap_index = 1
    /\ 201 \in (RenderedSprite.gfx_start + 1)..(RenderedSprite.gfx_start + TileCount)

\* the updates made in this step put tile i into the 8x8 block at
\* (8*(i mod tile_pitch), 8*(i div tile_pitch))
TilesInBlocks ==
    /\ Len(output'.value.updates) = TileCount
    /\ \A i \in 0..(TileCount - 1) :
          output'.value.updates[i + 1].rect =
              Rect(8 * (i % TilePitch), 8 * (i \div TilePitch), 8, 8)

\* C37: when a sprite of size s (tile_pitch = s/8) is rasterized, tile i of
\* its slice is drawn as an 8x8 block whose top-left corner is at
\* (8*(i mod tile_pitch), 8*(i div tile_pitch)), for every size 8, 16, 32 and
\* 64, so the tile_pitch^2 tiles cover the s x s area without overlap
C37_TileBlocks == [][SpriteRendered /\ ~panicked' => TilesInBlocks]_vars

\* the same, for the sprites of size 64 only
C37_Size64 ==
    [][SpriteRendered /\ ~panicked' /\ RenderedSprite.properties.size = "X64"
           => TilesInBlocks]_vars

\* what the code does: tile i goes to the block of tile_pitch x tile_pitch
\* pixels at (tile_pitch*(i mod tile_pitch), tile_pitch*(i div tile_pitch))
C37_TilePitchBlocks ==
    [][SpriteRendered /\ ~panicked' =>
          /\ Len(output'.value.updates) = TileCount
          /\ \A i \in 0..(TileCount - 1) :
                output'.value.updates[i + 1].rect =
                    Rect(TilePitch * (i % TilePitch), TilePitch * (i \div TilePitch),
                         TilePitch, TilePitch)]_vars

\* a sprite of size 16 has been rendered: its second tile went to the 2x2
\* block at (2, 0)
C37_Size16Rendered ==
    /\ input = << 0 >> /\ output.done
    /\ output.value.vrammodel.sprites[1].properties.size = "X16"
    /\ Len(output.value.updates) = 4
    /\ output.value.updates[2].rect = Rect(2, 0, 2, 2)
    /\ output.value.screen_destination = Rect(10, 20, 16, 16)

\* C40: for every sprite (every gfx_start in 0..255 and every size code
\* 0..3) the slice selected is tiles[gfx_start .. gfx_start + tile_pitch^2],
\* computed without 8-bit overflow and within the 256 tiles of the tilemap,
\* so rendering a sprite never indexes outside its tilemap and never panics
\* for its slice
C40_TileSlice ==
    [][SpriteRendered =>
          /\ RenderedSprite.gfx_start + TileCount <= 256
          /\ panicked' => BadPixel
          /\ ~panicked' =>
                output'.value.tiles =
                    SubSeq(output.value.vrammodel.tilemaps[
                               RenderedSprite.properties.tilemap_index + 1].tiles,
                           RenderedSprite.gfx_start + 1,
                           RenderedSprite.gfx_start + TileCount)]_vars

\* the same, for the sprites whose slice ends before the last tile
C40_BeforeLastTile ==
    [][SpriteRendered /\ RenderedSprite.gfx_start + TileCount <= 255 =>
          /\ panicked' => BadPixel
          /\ ~panicked' =>
                output'.value.tiles =
                    SubSeq(output.value.vrammodel.tilemaps[
                               RenderedSprite.properties.tilemap_index + 1].tiles,
                           RenderedSprite.gfx_start + 1,
                           RenderedSprite.gfx_start + TileCount)]_vars

\* the sprite of size 8 at the last tile: the render panicked, in either build
C40_LastTilePanics ==
    /\ input = << 0 >> /\ panicked /\ ~output.done
    /\ output.value.vrammodel.sprites[1].gfx_start = 255
    /\ output.value.vrammodel.sprites[1].properties.size = "X8"

\* ------------------------------------------------- label name claims
\* the jump or call of the word to the index target
JumpOf(word, target) ==
    CASE word = << "j", "m", "p", " " >> -> Jump(Unconditional, target)
      [] word = << "j", "z", " " >> -> Jump(Flag("Zero", TRUE), target)
      [] word = << "j", "n", "c", " " >> -> Jump(Flag("Carry", FALSE), target)
      [] word = << "c", "a", "l", "l", " " >> -> CallLocal(target)

\* the text compiled to the label definition (a Nop with an entry of the
\* symbol table) and the jump or call that targets it
CompiledToLabel(name, word, defined_first) ==
    LET at == IF defined_first THEN 0 ELSE 1
    IN  /\ output.value.ok
        /\ output.value.code = IF defined_first THEN << Nop, JumpOf(word, at) >>
                               ELSE << JumpOf(word, at), Nop >>
        /\ output.value.symbols = [i \in {at} |-> name]

\* the names that start with a lower-case letter and contain none of inc,
\* dec, ret and nop
PlainNames ==
    {<< "l", "o", "o", "p" >>, << "l", "1" >>, << "a", "_", "b" >>, << "e", "n", "d" >>}

\* C38: for every label name of the form letter followed by word characters,
\* the line "name:" compiles to a label definition (a Nop at that index with
\* a symbol-table entry) and "jmp name", "j[n]<flag> name" and "call name"
\* compile to a jump or call that targets it, whichever letters the name
\* contains (inc, dec, ret, nop, or an upper-case first letter)
C38_LabelNames ==
    output.done =>
        \A name \in LabelNames, word \in JumpWords, defined_first \in BOOLEAN :
            input = LabelText(name, word, defined_first)
                => CompiledToLabel(name, word, defined_first)

\* the same, for the plain names only
C38_PlainNames ==
    output.done =>
        \A name \in PlainNames, word \in JumpWords, defined_first \in BOOLEAN :
            input = LabelText(name, word, defined_first)
                => CompiledToLabel(name, word, defined_first)

\* "retry:" and "call retry" have been compiled: the definition was read as
\* ret, and the call's label was not found
C38_RetryNotFound ==
    /\ input = LabelText(<< "r", "e", "t", "r", "y" >>, << "c", "a", "l", "l", " " >>, TRUE)
    /\ output.done /\ ~output.value.ok
    /\ output.value.errors =
          << ParseError("InvalidLabel", 1, << "r", "e", "t", "r", "y" >>) >>

\* "incr:" and "jmp incr" have been compiled, to two Increments
C38_IncrIncrements ==
    /\ input = LabelText(<< "i", "n", "c", "r" >>, << "j", "m", "p", " " >>, TRUE)
    /\ output.done /\ output.value.ok
    /\ output.value.code = << Increment, Increment >>

\* ------------------------------------------------- nested call claims
\* the stack pointer before the first of the open calls
FirstSP == IF frames = << >> THEN last.frame.sp ELSE frames[1].sp

\* the last step() executed a Call(Local) that is the k-th of the open calls
NestedCall(k) == Executed("CallLocal") /\ Len(frames) = k

\* the last step() executed the Return of the last of the open calls
LastReturn == BalancedReturn /\ frames = << >>

\* Call and Return as a stack: a Return resumes after the most recent Call
\* that has not returned, with the stack pointer of before that Call; the
\* k-th nested Call leaves the stack pointer 2k below its value before the
\* first (as 16-bit numbers); the last Return leaves it at that value
LastInFirstOut ==
    /\ BalancedReturn => ReturnResumes
    /\ \A k \in 1..MaxDepth : NestedCall(k) => SP = (FirstSP - 2 * k) % 65536
    /\ LastReturn => SP = FirstSP

\* no byte of the open calls was pushed onto the stack-pointer cells: the
\* stack pointer before the first call is not within the 2 * MaxDepth + 2
\* addresses above 0x0FF0
FramesOffPointer ==
    FirstSP \notin (STACK_POINTER_MSB + 1)..(STACK_POINTER_MSB + 1 + 2 * MaxDepth + 2)

\* C39 as claimed: for every program whose Call(Local)s nest to a depth
\* within the bound and whose subroutine bodies are stack-balanced, each
\* Return resumes at the instruction following the most recent Call that has
\* not returned, the stack pointer after the k-th nested Call is 2k below its
\* value before the first, and after the last Return it has that value
C39_LastInFirstOutAsClaimed == LastInFirstOut

\* C39 amended: the same, provided no byte pushed by the calls or the bodies
\* lands on the stack-pointer cells 0x0FF0/0x0FF1 (the stack pointer before
\* the first Call is not in the addresses just above 0x0FF0 that the calls
\* and the bodies reach down from)
C39_LastInFirstOut == FramesOffPointer => LastInFirstOut

\* the third nested Call has been executed from the initial stack, after a
\* body that pushed and popped
C39_Witness ==
    /\ NestedCall(3)
    /\ FirstSP = INITIAL_STACK_POINTER
    /\ SP = INITIAL_STACK_POINTER - 6
    /\ prior.instr.op = "Pop" /\ prior.err = "Ok"

\* the last Return of three nested calls: back after the first Call
C39_Unwound ==
    /\ LastReturn
    /\ prior.instr.op = "Return" /\ prior.err = "Ok"
    /\ last.frame.sp = INITIAL_STACK_POINTER
    /\ SP = INITIAL_STACK_POINTER
    /\ pc = last.frame.p + 1
    /\ steps >= 6

====
